---- MODULE Spec2Model ----
(***************************************************************************)
(* BeforeAfterReelsTool: the animation driver (playAnimation, animate,     *)
(* stopAnimation, unmount cleanup), the image loader (handleImageUpload,   *)
(* loadImage) and the effect dispatch of the React component, as a state   *)
(* machine.  Times are in milliseconds (Date.now()), the duration state is *)
(* kept in milliseconds (seconds * 1000), intensity in percent, progress   *)
(* as an exact fraction <<numerator, denominator>> in lowest terms.        *)
(***************************************************************************)
EXTENDS Integers, FiniteSets, Sequences, TLC

VARIABLES
    mounted,            \* canvasRef.current is non-null (component mounted)
    beforeImageRef,     \* beforeImageRef.current
    afterImageRef,      \* afterImageRef.current
    beforeImage,        \* useState beforeImage
    afterImage,         \* useState afterImage
    decoding,           \* loadImage promises not yet settled
    selectedEffect,     \* useState selectedEffect
    duration,           \* useState duration, in ms
    intensity,          \* useState intensity, in percent
    isPlaying,          \* useState isPlaying
    progress,           \* useState progress
    animationFrameRef,  \* animationFrameRef.current (0 is null)
    rafQueue,           \* callbacks registered with requestAnimationFrame
    now,                \* Date.now(), in ms
    surface,            \* what the canvas shows
    ev,                 \* what the last handler did (observation only)
    sample              \* one earlier frame with its inputs (observation only)

vars == <<mounted, beforeImageRef, afterImageRef, beforeImage, afterImage,
          decoding, selectedEffect, duration, intensity, isPlaying, progress,
          animationFrameRef, rafQueue, now, surface, ev, sample>>

---------------------------------------------------------------------------
(* Bounds of the model *)

MaxFile == 1          \* decodable files 1..MaxFile
MaxDecoding == 1      \* loadImage promises in flight at once
MaxClock == 3         \* the clock is observed up to MaxClock * Quantum ms
MaxAdvance == 2       \* one clock step is at most MaxAdvance * Quantum ms
MaxRnd == 1           \* Math.random() draws are 0..MaxRnd

(* Program constants *)

Quantum == 500             \* granularity of the modelled clock = slider step, ms
DefaultIntensity == 80     \* defaultIntensity = 0.8
SliderMinDuration == 1000  \* duration slider min="1"
IntensityStep == 5         \* intensity slider step="0.05"

SliderMaxDuration == 10000  \* ms
SliderMinIntensity == 0     \* percent
SliderMaxIntensity == 100   \* percent

CANVAS_WIDTH == 1080
CANVAS_HEIGHT == 1920

NoImage == 0
NoFile == 0                \* e.target.files[0] is undefined
BadFile == -1              \* a file the decoder rejects
NoFrame == 0               \* animationFrameRef.current = null

---------------------------------------------------------------------------
(* Exact fractions for progress values *)

RECURSIVE GCD(_, _)
GCD(a, b) == IF b = 0 THEN a ELSE GCD(b, a % b)

Abs(x) == IF x < 0 THEN -x ELSE x

\* n / d with d > 0, in lowest terms
Frac(n, d) == LET g == GCD(Abs(n), d) IN <<n \div g, d \div g>>

Zero == <<0, 1>>
One == <<1, 1>>
Lt(a, b) == a[1] * b[2] < b[1] * a[2]
Leq(a, b) == a[1] * b[2] <= b[1] * a[2]
InUnit(a) == Leq(Zero, a) /\ Leq(a, One)
Mul(a, b) == Frac(a[1] * b[1], a[2] * b[2])
Add(a, b) == Frac(a[1] * b[2] + b[1] * a[2], a[2] * b[2])
Sub(a, b) == Frac(a[1] * b[2] - b[1] * a[2], a[2] * b[2])
MinF(a, b) == IF Lt(b, a) THEN b ELSE a
MaxF(a, b) == IF Lt(a, b) THEN b ELSE a
\* intensity (percent) as a fraction
Pct(k) == Frac(k, 100)

---------------------------------------------------------------------------
(* The effect picker and the dispatch *)

EffectIds ==
    << "shockZoom", "rgbGlitch", "filmBurn", "particleBurst", "wipeReveal",
       "verticalWipe", "circularReveal", "zoomIn", "zoomOut", "slideLeft",
       "slideRight", "slideUp", "slideDown", "fadeCross", "spinClockwise",
       "spinCounterClockwise", "diagonalWipe", "boxExpand", "pixelate",
       "blurTransition", "waveDistortion", "ripple", "splitHorizontal",
       "splitVertical", "flipHorizontal", "flipVertical", "checkerboard",
       "randomBlocks", "venetianBlinds", "swirl", "diamondReveal", "bounceIn",
       "elastic", "pageCurl", "kaleidoscope", "colorShift", "gradientWipe",
       "zoomBlur", "shatter", "radialWipe", "doorSwing", "twist", "fold",
       "starBurst", "liquid", "cubeRotate", "morph", "gridFlip", "spotlight",
       "vortex" >>

AllEffects == {EffectIds[i] : i \in 1..Len(EffectIds)}

\* the picker entries the model's user chooses among
Effects == {"shockZoom", "rgbGlitch"}

Files == 1..MaxFile

\* the duration slider positions the model's user chooses among (min 1 s,
\* step 0.5 s), in ms; defaultDuration is drawn from the same positions
Durations == {SliderMinDuration, SliderMinDuration + Quantum}

\* the intensity slider positions the model's user chooses among (step
\* 0.05), in percent; defaultIntensity is drawn from the same positions
Intensities == {IntensityStep, DefaultIntensity}

---------------------------------------------------------------------------
(* Frames.  A frame records everything the painted picture depends on. *)

Blank == [fx |-> "blank", t |-> Zero, k |-> 0, before |-> NoImage,
          after |-> NoImage, noise |-> 0, under |-> "blank"]

\* sin(t * PI) > 0.1, for t in [0,1]: asin(0.1) / PI = 0.03188...
BurstPhaseVisible(t) == Lt(<<3188, 100000>>, t) /\ Lt(t, <<96812, 100000>>)

\* as if the shatter pieces were displaced by Math.random() as well
DrawsRandomShatter(fx, t, k) ==
    CASE fx = "filmBurn" -> Lt(t, <<95, 100>>) /\ k > 0
      [] fx = "particleBurst" ->
            BurstPhaseVisible(t) /\ t # <<1, 2>> /\ (200 * k) \div 100 > 0
      [] fx = "shatter" -> Lt(Zero, t) /\ Lt(t, One) /\ k > 0
      [] OTHER -> FALSE

\* whether this frame of this effect shows something placed by Math.random():
\* the grain of filmBurn (drawn while t < 0.95, at alpha intensity * 0.3) and
\* the particle sizes of particleBurst (floor(200 * intensity) particles,
\* drawn while sin(t * PI) > 0.1, of size and alpha 0 when sin(t * PI) = 1);
\* no other routine calls Math.random()
DrawsRandom(fx, t, k) ==
    CASE fx = "filmBurn" -> Lt(t, <<95, 100>>) /\ k > 0
      [] fx = "particleBurst" ->
            BurstPhaseVisible(t) /\ t # <<1, 2>> /\ (200 * k) \div 100 > 0
      [] OTHER -> FALSE

\* a routine that draws over whatever the canvas holds
DrawsOver(surf) == IF surf.fx = "blank" THEN "blank" ELSE surf.fx

\* what remains of the earlier canvas content under the new frame: every
\* routine starts with ctx.clearRect over the whole canvas
ClearRect(surf) == "blank"

\* one call effectFn(ctx, t) of the routine of effect fx
ApplyEffect(fx, t, k, rnd, surf) ==
    IF beforeImageRef = NoImage \/ afterImageRef = NoImage
    THEN surf
    ELSE [fx |-> fx, t |-> t, k |-> k,
          before |-> beforeImageRef, after |-> afterImageRef,
          noise |-> IF DrawsRandom(fx, t, k) THEN rnd ELSE 0,
          under |-> ClearRect(surf)]

getEffectFunction(sel) == IF sel \in AllEffects THEN sel ELSE "shockZoom"

\* useState('shockZoom')
InitialEffect == "shockZoom"

\* the cases of the switch of getEffectFunction, in order: the value of
\* selectedEffect and the routine returned
SwitchCases ==
    <<
       <<"shockZoom", "applyShockZoom">>, <<"rgbGlitch", "applyRGBGlitch">>,
       <<"filmBurn", "applyFilmBurn">>, <<"particleBurst", "applyParticleBurst">>,
       <<"wipeReveal", "applyWipeReveal">>, <<"verticalWipe", "applyVerticalWipe">>,
       <<"circularReveal", "applyCircularReveal">>, <<"zoomIn", "applyZoomIn">>,
       <<"zoomOut", "applyZoomOut">>, <<"slideLeft", "applySlideLeft">>,
       <<"slideRight", "applySlideRight">>, <<"slideUp", "applySlideUp">>,
       <<"slideDown", "applySlideDown">>, <<"fadeCross", "applyFadeCross">>,
       <<"spinClockwise", "applySpinClockwise">>, <<"spinCounterClockwise", "applySpinCounterClockwise">>,
       <<"diagonalWipe", "applyDiagonalWipe">>, <<"boxExpand", "applyBoxExpand">>,
       <<"pixelate", "applyPixelate">>, <<"blurTransition", "applyBlurTransition">>,
       <<"waveDistortion", "applyWaveDistortion">>, <<"ripple", "applyRipple">>,
       <<"splitHorizontal", "applySplitHorizontal">>, <<"splitVertical", "applySplitVertical">>,
       <<"flipHorizontal", "applyFlipHorizontal">>, <<"flipVertical", "applyFlipVertical">>,
       <<"checkerboard", "applyCheckerboard">>, <<"randomBlocks", "applyRandomBlocks">>,
       <<"venetianBlinds", "applyVenetianBlinds">>, <<"swirl", "applySwirl">>,
       <<"diamondReveal", "applyDiamondReveal">>, <<"bounceIn", "applyBounceIn">>,
       <<"elastic", "applyElastic">>, <<"pageCurl", "applyPageCurl">>,
       <<"kaleidoscope", "applyKaleidoscope">>, <<"colorShift", "applyColorShift">>,
       <<"gradientWipe", "applyGradientWipe">>, <<"zoomBlur", "applyZoomBlur">>,
       <<"shatter", "applyShatter">>, <<"radialWipe", "applyRadialWipe">>,
       <<"doorSwing", "applyDoorSwing">>, <<"twist", "applyTwist">>,
       <<"fold", "applyFold">>, <<"starBurst", "applyStarBurst">>,
       <<"liquid", "applyLiquid">>, <<"cubeRotate", "applyCubeRotate">>,
       <<"morph", "applyMorph">>, <<"gridFlip", "applyGridFlip">>,
       <<"spotlight", "applySpotlight">>, <<"vortex", "applyVortex">> >>

\* the routine every other value falls through to
DefaultCase == "applyShockZoom"

\* every value ends in the same routine
EffectRoutineShared(sel) == DefaultCase

\* the routine of the first matching case, the default one when none matches
EffectRoutine(sel) ==
    LET hit == {i \in 1..Len(SwitchCases) : SwitchCases[i][1] = sel}
    IN IF hit = {} THEN DefaultCase
       ELSE SwitchCases[CHOOSE i \in hit : \A j \in hit : i <= j][2]

\* values of selectedEffect the picker does not offer
OtherValues == {"", "none", "shockzoom", "ShockZoom", "applyVortex", "vortex "}

---------------------------------------------------------------------------
(* What a routine draws.  A picture is an uploaded image with its pixel    *)
(* size; a rectangle is [x0, y0, x1, y1] in canvas pixels; a layer is one  *)
(* group of draw calls of one source (the before image, the after image,   *)
(* or paint: gradients, lines, particles) with its opacity and the part of *)
(* the canvas it covers.  Rotation does not change a layer's cover here: a *)
(* turned layer counts with the cover of the unturned one and is marked    *)
(* askew, as is a mirrored one.                                            *)

\* the pictures the model's user uploads: 1 fills the canvas exactly, 2 is a
\* landscape photo, 3 a small portrait of the canvas's shape
Pictures == {1, 2, 3}

PictureWidth(p) ==
    CASE p = 2 -> 1920
      [] p = 3 -> 540
      [] OTHER -> 1080

PictureHeight(p) ==
    CASE p = 2 -> 1080
      [] p = 3 -> 960
      [] OTHER -> 1920

Whole == [x0 |-> 0, y0 |-> 0, x1 |-> CANVAS_WIDTH, y1 |-> CANVAS_HEIGHT]
Nowhere == [x0 |-> 0, y0 |-> 0, x1 |-> 0, y1 |-> 0]

Min(i, j) == IF i < j THEN i ELSE j
Max(i, j) == IF i < j THEN j ELSE i

\* the rectangle drawImage paints picture p on with no transform in force:
\* scale = Math.max(W / width, H / height), centred
Fit(p) ==
    LET iw == PictureWidth(p)
        ih == PictureHeight(p)
        byWidth == CANVAS_WIDTH * ih >= CANVAS_HEIGHT * iw
        w == IF byWidth THEN CANVAS_WIDTH ELSE (iw * CANVAS_HEIGHT) \div ih
        h == IF byWidth THEN (ih * CANVAS_WIDTH) \div iw ELSE CANVAS_HEIGHT
        x == (CANVAS_WIDTH - w) \div 2
        y == (CANVAS_HEIGHT - h) \div 2
    IN [x0 |-> x, y0 |-> y, x1 |-> x + w, y1 |-> y + h]

\* the same draw in exact arithmetic, for an image of iw x ih pixels: the
\* scale and the rectangle handed to ctx.drawImage, as fractions of a pixel
drawImageContain(iw, ih) ==
    LET scale == MinF(Frac(CANVAS_WIDTH, iw), Frac(CANVAS_HEIGHT, ih))
        w == Mul(Frac(iw, 1), scale)
        h == Mul(Frac(ih, 1), scale)
    IN [scale |-> scale,
        x |-> Mul(Sub(Frac(CANVAS_WIDTH, 1), w), <<1, 2>>),
        y |-> Mul(Sub(Frac(CANVAS_HEIGHT, 1), h), <<1, 2>>),
        w |-> w, h |-> h]

drawImage(iw, ih) ==
    LET scale == MaxF(Frac(CANVAS_WIDTH, iw), Frac(CANVAS_HEIGHT, ih))
        w == Mul(Frac(iw, 1), scale)
        h == Mul(Frac(ih, 1), scale)
    IN [scale |-> scale,
        x |-> Mul(Sub(Frac(CANVAS_WIDTH, 1), w), <<1, 2>>),
        y |-> Mul(Sub(Frac(CANVAS_HEIGHT, 1), h), <<1, 2>>),
        w |-> w, h |-> h]

\* if (!img) return: the draw calls drawImage makes for a bitmap, none for
\* an absent one
DrawCalls(p) ==
    IF p = NoImage THEN << >>
    ELSE << drawImage(PictureWidth(p), PictureHeight(p)) >>

\* sizes of images beside those of the pictures: wider and narrower than the
\* canvas, smaller and larger, square, one pixel
ImageSizes ==
    { <<1, 1>>, <<7, 3>>, <<3, 7>>, <<1000, 1000>>, <<1000, 2000>>,
      <<4000, 3000>>, <<3000, 4000>>, <<1081, 1920>>, <<1080, 1921>>,
      <<2160, 3840>>, <<49, 87>> }

\* ctx.translate(dx, dy)
Shift(r, dx, dy) ==
    [x0 |-> r.x0 + dx, y0 |-> r.y0 + dy, x1 |-> r.x1 + dx, y1 |-> r.y1 + dy]

\* ctx.translate(cx, cy); ctx.scale(sx, sy); ctx.translate(-cx, -cy), with
\* sx and sy fractions (negative mirrors)
ScaleAbout(r, cx, cy, sx, sy) ==
    LET ax == cx + ((r.x0 - cx) * sx[1]) \div sx[2]
        bx == cx + ((r.x1 - cx) * sx[1]) \div sx[2]
        ay == cy + ((r.y0 - cy) * sy[1]) \div sy[2]
        by == cy + ((r.y1 - cy) * sy[1]) \div sy[2]
    IN [x0 |-> Min(ax, bx), y0 |-> Min(ay, by),
        x1 |-> Max(ax, bx), y1 |-> Max(ay, by)]

\* scaling about the canvas centre, the same in both directions
Zoom(r, s) == ScaleAbout(r, CANVAS_WIDTH \div 2, CANVAS_HEIGHT \div 2, s, s)

\* ctx.rect(x, y, w, h)
Rect(x, y, w, h) == [x0 |-> x, y0 |-> y, x1 |-> x + w, y1 |-> y + h]

\* the part of the canvas painted by a draw on r under clip c
Cover(r, c) ==
    LET w == Max(0, Min(Min(r.x1, c.x1), CANVAS_WIDTH) - Max(Max(r.x0, c.x0), 0))
        h == Max(0, Min(Min(r.y1, c.y1), CANVAS_HEIGHT) - Max(Max(r.y0, c.y0), 0))
    IN Frac(w * h, CANVAS_WIDTH * CANVAS_HEIGHT)

\* layers; op is the globalCompositeOperation in force
Layer(img, alpha, cover, askew) ==
    [img |-> img, alpha |-> alpha, cover |-> cover, askew |-> askew,
     op |-> "source-over"]

\* drawImage(ctx, img, alpha) of picture p on rectangle r under clip c;
\* an alpha outside [0,1] is clamped here (elastic only overshoots between
\* the ends of a run)
Draw(img, alpha, r, c) ==
    Layer(img, MaxF(Zero, MinF(One, alpha)), Cover(r, c), FALSE)

Askew(l) == [l EXCEPT !.askew = TRUE]

Opacity(l) == Mul(l.alpha, l.cover)

\* Math.sin(t * Math.PI) and Math.cos(t * Math.PI) where they are exact up
\* to rounding (sin(PI) is 1.2e-16 in floating point)
SinPi(t) ==
    CASE t = Zero -> Zero
      [] t = <<1, 2>> -> One
      [] t = One -> Zero

CosPi(t) ==
    CASE t = Zero -> One
      [] t = <<1, 2>> -> Zero
      [] t = One -> <<-1, 1>>

\* a clip path that grows from a point at t = 0 to a shape containing the
\* whole canvas at t = 1 (circle, triangle, diamond, pie)
Grown(t) ==
    CASE t = Zero -> Nowhere
      [] t = One -> Whole

AbsF(a) == Frac(Abs(a[1]), a[2])

\* a path whose size grows with the width of the canvas only
PathSizeWidthOnly(t) == Mul(t, Frac(CANVAS_WIDTH, 1))

\* const size = t * (CANVAS_WIDTH + CANVAS_HEIGHT): the legs of the triangle
\* of diagonalWipe, the diagonals of the diamond of diamondReveal
PathSize(t) == Mul(t, Frac(CANVAS_WIDTH + CANVAS_HEIGHT, 1))

\* whether the centre (i + 1/2, j + 1/2) of pixel (i, j) lies in the clip
\* path the routine of a clip-reveal effect draws the after image in
InClip(fx, t, i, j) ==
    LET x == Frac(2 * i + 1, 2)
        y == Frac(2 * j + 1, 2)
        W == Frac(CANVAS_WIDTH, 1)
        H == Frac(CANVAS_HEIGHT, 1)
        InRect(rx, ry, rw, rh) ==
            /\ Leq(rx, x) /\ Lt(x, Add(rx, rw))
            /\ Leq(ry, y) /\ Lt(y, Add(ry, rh))
    IN CASE fx = "wipeReveal" -> InRect(Zero, Zero, Mul(t, W), H)
         [] fx = "verticalWipe" -> InRect(Zero, Zero, W, Mul(t, H))
         [] fx = "boxExpand" ->
               LET width == Mul(t, W)
                   height == Mul(t, H)
               IN InRect(Mul(Sub(W, width), <<1, 2>>),
                         Mul(Sub(H, height), <<1, 2>>), width, height)
         [] fx = "venetianBlinds" ->
               LET blindHeight == Frac(CANVAS_HEIGHT, 20)
               IN \E blind \in 0..19 :
                     InRect(Zero, Mul(Frac(blind, 1), blindHeight),
                            Mul(W, t), blindHeight)
         [] fx = "diagonalWipe" -> Lt(Add(x, y), PathSize(t))
         [] fx = "diamondReveal" ->
               Lt(Add(AbsF(Sub(x, Mul(W, <<1, 2>>))),
                      AbsF(Sub(y, Mul(H, <<1, 2>>)))),
                  Mul(PathSize(t), <<1, 2>>))

\* how much of the canvas shows each source once the layers are composited
\* in order, each layer spread evenly over what is already there
NoShares == [before |-> Zero, after |-> Zero, paint |-> Zero]

Put(sh, l) ==
    LET f == Opacity(l)
        keep == Sub(One, f)
        free == Sub(One, Add(sh.before, Add(sh.after, sh.paint)))
    IN CASE l.op = "destination-out" ->
                [n \in DOMAIN sh |-> Mul(sh[n], keep)]
         [] l.op = "destination-over" ->
                [sh EXCEPT ![l.img] = Add(@, Mul(free, f))]
         [] OTHER ->
                [n \in DOMAIN sh |->
                    IF n = l.img THEN Add(Mul(sh[n], keep), f)
                    ELSE Mul(sh[n], keep)]

RECURSIVE Composite(_, _)
Composite(sh, layers) ==
    IF layers = << >> THEN sh
    ELSE Composite(Put(sh, Head(layers)), Tail(layers))

---------------------------------------------------------------------------
(* The effect routines: the layers each draws after its clearRect, for the *)
(* progress t (a fraction), the intensity k (percent) and the pictures b   *)
(* (before) and a (after).  The routines that use trigonometry or curved   *)
(* clip paths are followed at the ends of a run (and at its middle where   *)
(* SinPi and CosPi are exact).                                             *)

\* t * n pixels
Px(t, n) == (t[1] * n) \div t[2]

Two == <<2, 1>>
Half == <<1, 2>>

If(c, layers) == IF c THEN layers ELSE << >>

applyShockZoom(t, k, b, a) ==
    LET zoomPhase == IF Lt(t, Half) THEN Mul(t, Two) ELSE Mul(Sub(One, t), Two)
        zoom == Add(One, Mul(zoomPhase, Mul(Pct(k), <<3, 10>>)))
        afterZoom == Add(One, Mul(Sub(One, t), Mul(Pct(k), Half)))
    IN If(Lt(t, <<4, 5>>),
          << Draw("before", MaxF(Zero, Sub(One, Mul(t, <<3, 2>>))),
                  Zoom(Fit(b), zoom), Whole) >>)
       \o If(Lt(<<1, 5>>, t),
             << Draw("after", MinF(One, Mul(Sub(t, <<1, 5>>), <<3, 2>>)),
                     Zoom(Fit(a), afterZoom), Whole) >>)

applyRGBGlitch(t, k, b, a) ==
    LET showBefore == Lt(t, Half)
        glitchIntensity == Mul(SinPi(t), Pct(k))
        offset == Px(glitchIntensity, 20)
        base == IF showBefore THEN Draw("before", One, Fit(b), Whole)
                ELSE Draw("after", One, Fit(a), Whole)
        ghost(dx) ==
            [(IF showBefore
              THEN Draw("after", glitchIntensity, Shift(Fit(a), dx, 0), Whole)
              ELSE Draw("before", glitchIntensity, Shift(Fit(b), dx, 0), Whole))
             EXCEPT !.op = "screen"]
    IN << base >>
       \o If(Lt(<<1, 10>>, glitchIntensity), << ghost(-offset), ghost(offset) >>)

\* the glow ring (between 0.7 and 1 burnRadius) and the ring the
\* destination-out fill erases with the glow gradient as its fill style lie
\* off the canvas at t = 0 (radius 0) and at t = 1 (inner radius 0.7 of the
\* diagonal); the burn hole (radius 0.9 burnRadius) is a point at t = 0 and
\* holds the canvas at t = 1; the grain is 100 squares of at most 7 px
applyFilmBurn(t, k, b, a) ==
    LET glow == Mul(Pct(k), <<3, 10>>)
        ring == CASE t = Zero -> Zero [] t = One -> Zero
    IN << Draw("before", One, Fit(b), Whole),
          Layer("paint", glow, ring, FALSE),
          [Layer("paint", glow, ring, FALSE) EXCEPT !.op = "destination-out"],
          Draw("after", One, Fit(a), Grown(t)) >>
       \o If(Lt(t, <<95, 100>>),
             << Layer("paint", glow,
                      Frac(100 * 49, CANVAS_WIDTH * CANVAS_HEIGHT), FALSE) >>)

\* floor(200 * intensity) particles of radius (1 - burstPhase) * (8..12) with
\* a glow of twice the radius
applyParticleBurst(t, k, b, a) ==
    LET particleCount == (200 * k) \div 100
        burstPhase == SinPi(t)
        size == Px(Sub(One, burstPhase), 12)
    IN << Draw("before", MaxF(Zero, Sub(One, t)), Fit(b), Whole),
          Draw("after", MinF(One, t), Fit(a), Whole) >>
       \o If(Lt(<<1, 10>>, burstPhase),
             << Layer("paint", Mul(Sub(One, burstPhase), <<4, 5>>),
                      MinF(One, Frac(particleCount * 13 * size * size,
                                     CANVAS_WIDTH * CANVAS_HEIGHT)), FALSE) >>)

\* the edge gradient peaks at intensity * 0.8; the 10 motion lines are 3 px
\* wide
applyWipeReveal(t, k, b, a) ==
    LET wipeX == Px(t, CANVAS_WIDTH)
        edgeWidth == (50 * k) \div 100
    IN << Draw("before", One, Fit(b), Whole),
          Draw("after", One, Fit(a), Rect(0, 0, wipeX, CANVAS_HEIGHT)),
          Layer("paint", Mul(Pct(k), <<4, 5>>),
                Cover(Rect(wipeX - edgeWidth, 0, 2 * edgeWidth, CANVAS_HEIGHT),
                      Whole), FALSE),
          Layer("paint", Mul(Pct(k), <<2, 5>>), Frac(10 * 3, CANVAS_WIDTH),
                FALSE) >>

applyVerticalWipe(t, k, b, a) ==
    << Draw("before", One, Fit(b), Whole),
       Draw("after", One, Fit(a),
            Rect(0, 0, CANVAS_WIDTH, Px(t, CANVAS_HEIGHT))) >>

\* the circle has radius t * half the diagonal
applyCircularReveal(t, k, b, a) ==
    << Draw("before", One, Fit(b), Whole),
       Draw("after", One, Fit(a), Grown(t)) >>

applyZoomIn(t, k, b, a) ==
    LET zoom == Add(One, Mul(t, Mul(Pct(k), Two)))
    IN << Draw("before", Sub(One, t), Zoom(Fit(b), zoom), Whole),
          Draw("after", t, Zoom(Fit(a), zoom), Whole) >>

applyZoomOut(t, k, b, a) ==
    LET zoom == Sub(Two, Mul(t, Pct(k)))
    IN << Draw("before", Sub(One, t), Zoom(Fit(b), zoom), Whole),
          Draw("after", t, Zoom(Fit(a), zoom), Whole) >>

applySlideLeft(t, k, b, a) ==
    LET offset == Px(t, CANVAS_WIDTH)
    IN << Draw("before", One, Shift(Fit(b), -offset, 0), Whole),
          Draw("after", One, Shift(Fit(a), CANVAS_WIDTH - offset, 0), Whole) >>

applySlideRight(t, k, b, a) ==
    LET offset == Px(t, CANVAS_WIDTH)
    IN << Draw("before", One, Shift(Fit(b), offset, 0), Whole),
          Draw("after", One, Shift(Fit(a), -CANVAS_WIDTH + offset, 0), Whole) >>

applySlideUp(t, k, b, a) ==
    LET offset == Px(t, CANVAS_HEIGHT)
    IN << Draw("before", One, Shift(Fit(b), 0, -offset), Whole),
          Draw("after", One, Shift(Fit(a), 0, CANVAS_HEIGHT - offset), Whole) >>

applySlideDown(t, k, b, a) ==
    LET offset == Px(t, CANVAS_HEIGHT)
    IN << Draw("before", One, Shift(Fit(b), 0, offset), Whole),
          Draw("after", One, Shift(Fit(a), 0, -CANVAS_HEIGHT + offset), Whole) >>

\* a cross fade that scales both opacities by the intensity
applyFadeCrossIntensity(t, k, b, a) ==
    << Draw("before", Mul(Sub(One, t), Pct(k)), Fit(b), Whole),
       Draw("after", Mul(t, Pct(k)), Fit(a), Whole) >>

applyFadeCross(t, k, b, a) ==
    << Draw("before", Sub(One, t), Fit(b), Whole),
       Draw("after", t, Fit(a), Whole) >>

\* rotation by t * 2 PI * intensity and by (t - 1) * 2 PI * intensity
applySpinClockwise(t, k, b, a) ==
    LET before == Draw("before", Sub(One, t), Fit(b), Whole)
        after == Draw("after", t, Fit(a), Whole)
    IN << IF Mul(t, Pct(k)) # Zero THEN Askew(before) ELSE before,
          IF Mul(Sub(t, One), Pct(k)) # Zero THEN Askew(after) ELSE after >>

applySpinCounterClockwise(t, k, b, a) ==
    LET before == Draw("before", Sub(One, t), Fit(b), Whole)
        after == Draw("after", t, Fit(a), Whole)
    IN << IF Mul(t, Pct(k)) # Zero THEN Askew(before) ELSE before,
          IF Mul(Sub(t, One), Pct(k)) # Zero THEN Askew(after) ELSE after >>

\* the triangle has legs t * (W + H)
applyDiagonalWipe(t, k, b, a) ==
    << Draw("before", One, Fit(b), Whole),
       Draw("after", One, Fit(a), Grown(t)) >>

applyBoxExpand(t, k, b, a) ==
    LET width == Px(t, CANVAS_WIDTH)
        height == Px(t, CANVAS_HEIGHT)
        x == (CANVAS_WIDTH - width) \div 2
        y == (CANVAS_HEIGHT - height) \div 2
    IN << Draw("before", One, Fit(b), Whole),
          Draw("after", One, Fit(a), Rect(x, y, width, height)) >>

\* with pixelSize > 1 the canvas is copied back over itself in blocks
applyPixelate(t, k, b, a) ==
    LET ramp == Mul(Sub(One, AbsF(Sub(Mul(t, Two), One))), Pct(k))
        pixelSize == Max(1, Px(ramp, 100))
        img == IF Lt(t, Half) THEN "before" ELSE "after"
        r == IF Lt(t, Half) THEN Fit(b) ELSE Fit(a)
    IN << Draw(img, One, r, Whole) >>
       \o If(pixelSize > 1, << Layer(img, One, One, FALSE) >>)

\* the blur radius does not move the pictures
applyBlurTransition(t, k, b, a) ==
    << Draw("before", Sub(One, t), Fit(b), Whole),
       Draw("after", t, Fit(a), Whole) >>

\* rows pushed sideways by at most amp pixels: what every row still covers
Sway(r, amp) == [r EXCEPT !.x0 = @ + amp, !.x1 = @ - amp]

applyWaveDistortion(t, k, b, a) ==
    LET amplitude == (30 * k) \div 100
    IN IF Lt(t, Half)
       THEN << Draw("before", One, Sway(Fit(b), amplitude), Whole) >>
       ELSE << Draw("after", One, Sway(Fit(a), amplitude), Whole) >>

HalfDiagonal == 1101

\* up to 5 rings, 50 px apart, 3 px wide, of which at most two arcs of
\* 1200 px each cross the canvas
applyRipple(t, k, b, a) ==
    LET rippleRadius == Px(t, HalfDiagonal)
        rings == Cardinality({i \in 0..4 : rippleRadius - i * 50 > 0})
    IN << Draw("before", Sub(One, t), Fit(b), Whole),
          Draw("after", t, Fit(a), Whole) >>
       \o If(rings > 0,
             << Layer("paint", Mul(Pct(k), Half),
                      Frac(rings * 2 * 1200 * 3, CANVAS_WIDTH * CANVAS_HEIGHT),
                      FALSE) >>)

\* the two halves of the before picture move apart; they never overlap
applySplitHorizontal(t, k, b, a) ==
    LET split == Px(t, CANVAS_HEIGHT) \div 2
        half == CANVAS_HEIGHT \div 2
        top == Cover(Shift(Fit(b), 0, -split),
                     Shift(Rect(0, 0, CANVAS_WIDTH, half), 0, -split))
        bottom == Cover(Shift(Fit(b), 0, split),
                        Shift(Rect(0, half, CANVAS_WIDTH, half), 0, split))
    IN << Layer("before", One, Add(top, bottom), FALSE),
          Draw("after", t, Fit(a), Whole) >>

applySplitVertical(t, k, b, a) ==
    LET split == Px(t, CANVAS_WIDTH) \div 2
        half == CANVAS_WIDTH \div 2
        left == Cover(Shift(Fit(b), -split, 0),
                      Shift(Rect(0, 0, half, CANVAS_HEIGHT), -split, 0))
        right == Cover(Shift(Fit(b), split, 0),
                       Shift(Rect(half, 0, half, CANVAS_HEIGHT), split, 0))
    IN << Layer("before", One, Add(left, right), FALSE),
          Draw("after", t, Fit(a), Whole) >>

applyFlipHorizontal(t, k, b, a) ==
    LET c == CosPi(t)
        r == IF Lt(t, Half) THEN Fit(b) ELSE Fit(a)
        layer == Draw(IF Lt(t, Half) THEN "before" ELSE "after", One,
                      ScaleAbout(r, CANVAS_WIDTH \div 2, 0, c, One), Whole)
    IN << IF Lt(c, Zero) THEN Askew(layer) ELSE layer >>

applyFlipVertical(t, k, b, a) ==
    LET c == CosPi(t)
        r == IF Lt(t, Half) THEN Fit(b) ELSE Fit(a)
        layer == Draw(IF Lt(t, Half) THEN "before" ELSE "after", One,
                      ScaleAbout(r, 0, CANVAS_HEIGHT \div 2, One, c), Whole)
    IN << IF Lt(c, Zero) THEN Askew(layer) ELSE layer >>

\* f[1] + ... + f[n]
RECURSIVE SumBetween(_, _, _)
SumBetween(f, lo, hi) ==
    IF hi < lo THEN Zero
    ELSE IF lo = hi THEN f[lo]
    ELSE LET mid == (lo + hi) \div 2
         IN Add(SumBetween(f, lo, mid), SumBetween(f, mid + 1, hi))

SumF(f, n) == SumBetween(f, 1, n)

\* Math.max(0, Math.min(1, (t - delay) * 2))
CellT(t, delay) == MaxF(Zero, MinF(One, Mul(Sub(t, delay), Two)))

\* the grids of the per-cell effects
GridSize(fx) ==
    CASE fx = "checkerboard" -> 10
      [] fx = "randomBlocks" -> 15
      [] fx = "gridFlip" -> 5

\* (Math.sin(i * 12.9898 + j * 78.233) + 1) / 2 of applyRandomBlocks in
\* thousandths, rounded down, for i, j in 0..14 (row i, column j)
BlockHash ==
    <<
       500, 651, 212, 897,  29, 999,  18, 919, 182, 685, 463, 384, 757, 125, 957,
       705, 441, 405, 738, 139, 947,   5, 994,  52, 859, 261, 594, 558, 294, 833,
       874, 242, 615, 536, 314, 817,  80, 981,   0, 970, 102, 787, 349, 499, 651,
       977,  89, 805, 328, 521, 630, 229, 884,  36, 998,  12, 930, 166, 705, 441,
       996,   8, 940, 150, 724, 420, 426, 719, 155, 938,   9, 996,  42, 874, 242,
       927,  14, 998,  34, 888, 224, 636, 515, 334, 800,  92, 975,   0, 977,  89,
       782, 105, 968,   0, 983,  77, 821, 308, 542, 609, 248, 870,  45, 996,   8,
       588, 267, 855,  54, 993,   4, 950, 135, 743, 399, 448, 699, 171, 927,  14,
       378, 469, 679, 187, 915,  19, 999,  27, 901, 207, 656, 493, 354, 782, 105,
       189, 677, 472, 375, 764, 119, 960,   2, 988,  66, 838, 288, 564, 588, 267,
        56, 853, 269, 585, 567, 286, 840,  65, 989,   2, 959, 121, 762, 378, 469,
         0, 967, 107, 780, 357, 491, 659, 204, 903,  26, 999,  20, 914, 189, 677,
        33, 999,  14, 925, 173, 697, 450, 396, 746, 133, 951,   4, 992,  56, 853,
       148, 942,   7, 995,  46, 868, 250, 606, 545, 306, 824,  76, 984,   0, 967,
       326, 807,  87, 978,   0, 974,  94, 798, 337, 512, 639, 222, 890,  33, 999 >>

\* the delay of cell (i, j):
\*   checkerboard  ((i + j) / (gridSize * 2)) * 0.5
\*   randomBlocks  random * 0.5
\*   gridFlip      (i + j) / (gridSize * 2) * 0.5
CellDelay(fx, i, j) ==
    CASE fx = "checkerboard" -> Frac(i + j, 40)
      [] fx = "randomBlocks" -> Frac(BlockHash[i * 15 + j + 1], 2000)
      [] fx = "gridFlip" -> Frac(i + j, 20)

\* how much of cell (i, j) shows the after picture: its opacity cellT in the
\* cells checkerboard and randomBlocks draw it in, the width |cos(cellT PI)|
\* of the flipped cell of gridFlip once the cosine is not positive
CellAfter(fx, t, i, j) ==
    LET cellT == CellT(t, CellDelay(fx, i, j))
    IN CASE fx = "checkerboard" -> IF (i + j) % 2 = 0 THEN cellT ELSE Zero
         [] fx = "randomBlocks" -> cellT
         [] fx = "gridFlip" ->
               IF Lt(Zero, CosPi(cellT)) THEN Zero ELSE AbsF(CosPi(cellT))

\* the cells are disjoint: the part of the canvas that shows the after
\* picture is the sum over the cells of CellAfter times the cell's area
GridAfter(fx, t) ==
    LET n == GridSize(fx)
        row(i) == SumF([j \in 1..n |-> CellAfter(fx, t, i, j - 1)], n)
    IN Mul(SumF([i \in 1..n |-> row(i - 1)], n), Frac(1, n * n))

\* 10 x 10 cells; the after picture is drawn, at opacity cellT, in the cells
\* with (i + j) even only
applyCheckerboard(t, k, b, a) ==
    << Draw("before", One, Fit(b), Whole),
       Layer("after", One, GridAfter("checkerboard", t), FALSE) >>

\* 15 x 15 cells, the after picture drawn at opacity cellT in every cell
\* with cellT > 0
applyRandomBlocks(t, k, b, a) ==
    << Draw("before", One, Fit(b), Whole),
       Layer("after", One, GridAfter("randomBlocks", t), FALSE) >>

\* 20 blinds, each of the full blind height and of width W * t
applyVenetianBlinds(t, k, b, a) ==
    << Draw("before", One, Fit(b), Whole),
       Draw("after", One, Fit(a),
            Rect(0, 0, Px(t, CANVAS_WIDTH), CANVAS_HEIGHT)) >>

applySwirl(t, k, b, a) ==
    LET before == Draw("before", Sub(One, t),
                       Zoom(Fit(b), Sub(One, Mul(t, Half))), Whole)
        after == Draw("after", t,
                      Zoom(Fit(a), Add(Half, Mul(t, Half))), Whole)
    IN << IF Mul(t, Pct(k)) # Zero THEN Askew(before) ELSE before,
          IF Mul(Sub(t, One), Pct(k)) # Zero THEN Askew(after) ELSE after >>

\* the diamond has diagonals t * (W + H)
applyDiamondReveal(t, k, b, a) ==
    << Draw("before", One, Fit(b), Whole),
       Draw("after", One, Fit(a), Grown(t)) >>

applyBounceIn(t, k, b, a) ==
    LET bounce == IF Lt(t, Half)
                  THEN Mul(Two, Mul(t, t))
                  ELSE Sub(One, Mul(Mul(Sub(Two, Mul(Two, t)),
                                        Sub(Two, Mul(Two, t))), Half))
    IN << Draw("before", Sub(One, t), Fit(b), Whole),
          Draw("after", t, Zoom(Fit(a), bounce), Whole) >>

\* elastic is 0 at t = 0 and 1 at t = 1 by the routine's own case split
applyElastic(t, k, b, a) ==
    LET elastic == CASE t = Zero -> Zero [] t = One -> One
    IN << Draw("before", Sub(One, elastic), Fit(b), Whole),
          Draw("after", elastic, Fit(a), Whole) >>

\* the before picture is clipped to the page: curlWidth wide, less the two
\* lenses between the page's curved top and bottom edges and the canvas
\* edges (each curlWidth * curlAmount / 3)
applyPageCurl(t, k, b, a) ==
    LET curlWidth == Px(Sub(One, t), CANVAS_WIDTH)
        curlAmount == (200 * k) \div 100
        page == curlWidth * CANVAS_HEIGHT - 2 * ((curlWidth * curlAmount) \div 3)
    IN << Draw("after", One, Fit(a), Whole),
          Layer("before", One, Frac(page, CANVAS_WIDTH * CANVAS_HEIGHT), FALSE) >>

\* 8 copies at opacity 1/8, turned by i * 45 degrees + t * 360 degrees and
\* scaled by t
applyKaleidoscope(t, k, b, a) ==
    LET copy == IF Lt(t, Half)
                THEN Draw("before", <<1, 8>>, Zoom(Fit(b), t), Whole)
                ELSE Draw("after", <<1, 8>>, Zoom(Fit(a), t), Whole)
    IN [i \in 1..8 |-> IF i > 1 \/ t \notin {Zero, One} THEN Askew(copy) ELSE copy]

\* the hue rotation does not move the pictures
applyColorShift(t, k, b, a) ==
    << Draw("before", Sub(One, t), Fit(b), Whole),
       Draw("after", t, Fit(a), Whole) >>

\* the destination-out gradient along the diagonal is opaque up to
\* max(0, 2t - 1) and clear from min(1, 2t)
applyGradientWipe(t, k, b, a) ==
    LET erased == CASE t = Zero -> Zero [] t = Half -> Half [] t = One -> One
    IN << Draw("before", One, Fit(b), Whole),
          [Layer("paint", One, erased, FALSE) EXCEPT !.op = "destination-out"],
          [Draw("after", One, Fit(a), Whole) EXCEPT !.op = "destination-over"] >>

\* drawImage sets globalAlpha itself, so every step is drawn at opacity 1
applyZoomBlur(t, k, b, a) ==
    LET maxScale == Add(One, Mul(Pct(k), Half))
        scale(i) == Add(One, Mul(Mul(Frac(i, 10), Sub(maxScale, One)), SinPi(t)))
        step(i) == IF Lt(t, Half)
                   THEN Draw("before", One, Zoom(Fit(b), scale(i)), Whole)
                   ELSE Draw("after", One, Zoom(Fit(a), scale(i)), Whole)
    IN [i \in 1..10 |-> step(i - 1)] \o << step(0) >>

\* 5 x 4 pieces cut out of the before picture's own pixels (not scaled to
\* the canvas), at opacity 1 - t, pushed and turned with t
applyShatter(t, k, b, a) ==
    LET pieces == Layer("before", Sub(One, t),
                        Frac(Min(PictureWidth(b), CANVAS_WIDTH)
                               * Min(PictureHeight(b), CANVAS_HEIGHT),
                             CANVAS_WIDTH * CANVAS_HEIGHT), FALSE)
    IN << Draw("after", One, Fit(a), Whole),
          IF t # Zero THEN Askew(pieces) ELSE pieces >>

\* the pie has radius max(W, H) and angle t * 2 PI
applyRadialWipe(t, k, b, a) ==
    << Draw("before", One, Fit(b), Whole),
       Draw("after", One, Fit(a), Grown(t)) >>

\* the door is scaled by cos(t * PI / 2) about the left edge
applyDoorSwing(t, k, b, a) ==
    << Draw("after", One, Fit(a), Whole) >>
    \o If(Lt(t, One),
          << Draw("before", One,
                  ScaleAbout(Fit(b), 0, CANVAS_HEIGHT \div 2,
                             CosPi(Mul(t, Half)), One), Whole) >>)

\* 50 slices, slice i turned by (i / 50 - 0.5) * t * PI * intensity
applyTwist(t, k, b, a) ==
    LET slices == IF Lt(t, Half) THEN Draw("before", One, Fit(b), Whole)
                  ELSE Draw("after", One, Fit(a), Whole)
    IN << IF Mul(t, Pct(k)) # Zero THEN Askew(slices) ELSE slices >>

applyFold(t, k, b, a) ==
    LET foldT == IF Lt(t, Half) THEN Mul(t, Two) ELSE One
        unfoldT == IF Leq(Half, t) THEN Mul(Sub(t, Half), Two) ELSE Zero
    IN << Draw("before", One,
               ScaleAbout(Fit(b), CANVAS_WIDTH \div 2, 0, Sub(One, foldT), One),
               Whole) >>
       \o If(Lt(Zero, unfoldT),
             << Draw("after", One,
                     ScaleAbout(Fit(a), CANVAS_WIDTH \div 2, 0, unfoldT, One),
                     Whole) >>)

\* 24 discs of radius 20 (1257 px each) at opacity t * 0.7, under the after
\* picture
applyStarBurst(t, k, b, a) ==
    << Draw("before", Sub(One, t), Fit(b), Whole),
       Layer("paint", Mul(t, <<7, 10>>),
             Frac(24 * 1257, CANVAS_WIDTH * CANVAS_HEIGHT), FALSE),
       Draw("after", t, Fit(a), Whole) >>

\* 20 rows pushed sideways by at most 50 * intensity pixels
applyLiquid(t, k, b, a) ==
    LET amplitude == (50 * k) \div 100
    IN IF Lt(t, Half)
       THEN << Draw("before", One, Sway(Fit(b), amplitude), Whole) >>
       ELSE << Draw("after", One, Sway(Fit(a), amplitude), Whole) >>

applyCubeRotate(t, k, b, a) ==
    LET c == CosPi(t)
        scale == AbsF(c)
    IN IF Lt(Zero, c)
       THEN << Draw("before", One,
                    ScaleAbout(Fit(b), CANVAS_WIDTH \div 2, CANVAS_HEIGHT \div 2,
                               scale, One), Whole) >>
       ELSE << Draw("after", One,
                    ScaleAbout(Fit(a), CANVAS_WIDTH \div 2, CANVAS_HEIGHT \div 2,
                               scale, One), Whole) >>

applyMorph(t, k, b, a) ==
    LET morphAmount == Mul(SinPi(t), Mul(Pct(k), <<50, 1>>))
        sx == Mul(morphAmount, <<1, CANVAS_WIDTH>>)
        sy == Mul(morphAmount, <<1, CANVAS_HEIGHT>>)
    IN << Draw("before", Sub(One, t),
               ScaleAbout(Fit(b), CANVAS_WIDTH \div 2, CANVAS_HEIGHT \div 2,
                          Add(One, sx), Add(One, sy)), Whole),
          Draw("after", t,
               ScaleAbout(Fit(a), CANVAS_WIDTH \div 2, CANVAS_HEIGHT \div 2,
                          Sub(One, sx), Sub(One, sy)), Whole) >>

\* 5 x 5 cells, each scaled sideways by cos(cellT * PI) about its own centre
\* and showing the before picture while that cosine is positive, the after
\* picture (mirrored within the cell) otherwise
applyGridFlip(t, k, b, a) ==
    LET c(i, j) == CosPi(CellT(t, CellDelay("gridFlip", i, j)))
        front(i, j) == IF Lt(Zero, c(i, j)) THEN Mul(c(i, j), <<1, 25>>) ELSE Zero
        fronts(i) == SumF([j \in 1..5 |-> front(i, j - 1)], 5)
    IN << Layer("before", One, SumF([i \in 1..5 |-> fronts(i - 1)], 5), FALSE),
          Layer("after", One, GridAfter("gridFlip", t), TRUE) >>

\* the circle has radius t * half the diagonal; the white rim gradient
\* (from 0.7 of the radius outwards, up to intensity * 0.3) lies on 27% of
\* the canvas at t = 1
applySpotlight(t, k, b, a) ==
    << Draw("before", One, Fit(b), Whole),
       Draw("after", One, Fit(a), Grown(t)),
       Layer("paint", Mul(Pct(k), <<3, 10>>),
             CASE t = Zero -> Zero [] t = One -> <<27, 100>>, FALSE) >>

\* 30 copies of the before picture (each at opacity 1: drawImage sets
\* globalAlpha itself), turned and scaled by 1 - t * i / 30, under the after
\* picture
applyVortex(t, k, b, a) ==
    LET copy(i) ==
            LET l == Draw("before", One,
                          Zoom(Fit(b), Sub(One, Mul(t, Frac(i, 30)))), Whole)
            IN IF Mul(t, Pct(k)) # Zero THEN Askew(l) ELSE l
    IN [i \in 1..30 |-> copy(i - 1)] \o << Draw("after", t, Fit(a), Whole) >>

\* the routine getEffectFunction selects, applied
EffectLayers(fx, t, k, b, a) ==
    CASE fx = "shockZoom" -> applyShockZoom(t, k, b, a)
      [] fx = "rgbGlitch" -> applyRGBGlitch(t, k, b, a)
      [] fx = "filmBurn" -> applyFilmBurn(t, k, b, a)
      [] fx = "particleBurst" -> applyParticleBurst(t, k, b, a)
      [] fx = "wipeReveal" -> applyWipeReveal(t, k, b, a)
      [] fx = "verticalWipe" -> applyVerticalWipe(t, k, b, a)
      [] fx = "circularReveal" -> applyCircularReveal(t, k, b, a)
      [] fx = "zoomIn" -> applyZoomIn(t, k, b, a)
      [] fx = "zoomOut" -> applyZoomOut(t, k, b, a)
      [] fx = "slideLeft" -> applySlideLeft(t, k, b, a)
      [] fx = "slideRight" -> applySlideRight(t, k, b, a)
      [] fx = "slideUp" -> applySlideUp(t, k, b, a)
      [] fx = "slideDown" -> applySlideDown(t, k, b, a)
      [] fx = "fadeCross" -> applyFadeCross(t, k, b, a)
      [] fx = "spinClockwise" -> applySpinClockwise(t, k, b, a)
      [] fx = "spinCounterClockwise" -> applySpinCounterClockwise(t, k, b, a)
      [] fx = "diagonalWipe" -> applyDiagonalWipe(t, k, b, a)
      [] fx = "boxExpand" -> applyBoxExpand(t, k, b, a)
      [] fx = "pixelate" -> applyPixelate(t, k, b, a)
      [] fx = "blurTransition" -> applyBlurTransition(t, k, b, a)
      [] fx = "waveDistortion" -> applyWaveDistortion(t, k, b, a)
      [] fx = "ripple" -> applyRipple(t, k, b, a)
      [] fx = "splitHorizontal" -> applySplitHorizontal(t, k, b, a)
      [] fx = "splitVertical" -> applySplitVertical(t, k, b, a)
      [] fx = "flipHorizontal" -> applyFlipHorizontal(t, k, b, a)
      [] fx = "flipVertical" -> applyFlipVertical(t, k, b, a)
      [] fx = "checkerboard" -> applyCheckerboard(t, k, b, a)
      [] fx = "randomBlocks" -> applyRandomBlocks(t, k, b, a)
      [] fx = "venetianBlinds" -> applyVenetianBlinds(t, k, b, a)
      [] fx = "swirl" -> applySwirl(t, k, b, a)
      [] fx = "diamondReveal" -> applyDiamondReveal(t, k, b, a)
      [] fx = "bounceIn" -> applyBounceIn(t, k, b, a)
      [] fx = "elastic" -> applyElastic(t, k, b, a)
      [] fx = "pageCurl" -> applyPageCurl(t, k, b, a)
      [] fx = "kaleidoscope" -> applyKaleidoscope(t, k, b, a)
      [] fx = "colorShift" -> applyColorShift(t, k, b, a)
      [] fx = "gradientWipe" -> applyGradientWipe(t, k, b, a)
      [] fx = "zoomBlur" -> applyZoomBlur(t, k, b, a)
      [] fx = "shatter" -> applyShatter(t, k, b, a)
      [] fx = "radialWipe" -> applyRadialWipe(t, k, b, a)
      [] fx = "doorSwing" -> applyDoorSwing(t, k, b, a)
      [] fx = "twist" -> applyTwist(t, k, b, a)
      [] fx = "fold" -> applyFold(t, k, b, a)
      [] fx = "starBurst" -> applyStarBurst(t, k, b, a)
      [] fx = "liquid" -> applyLiquid(t, k, b, a)
      [] fx = "cubeRotate" -> applyCubeRotate(t, k, b, a)
      [] fx = "morph" -> applyMorph(t, k, b, a)
      [] fx = "gridFlip" -> applyGridFlip(t, k, b, a)
      [] fx = "spotlight" -> applySpotlight(t, k, b, a)
      [] fx = "vortex" -> applyVortex(t, k, b, a)

\* the layers of a painted frame and what it shows
LayersOf(frame) ==
    EffectLayers(frame.fx, frame.t, frame.k, frame.before, frame.after)

Shown(frame) == Composite(NoShares, LayersOf(frame))

---------------------------------------------------------------------------
(* The animation driver *)

\* elapsed / duration without the Math.min
ProgressUnclamped(elapsedMs, durMs) == Frac(elapsedMs, durMs)

\* Math.min(elapsed / duration, 1), elapsed = (currentTime - startTime) / 1000
Progress(elapsedMs, durMs) ==
    LET r == Frac(elapsedMs, durMs) IN IF Lt(r, One) THEN r ELSE One

\* an animate callback memoised once, at the first render with the built-in
\* defaults (useCallback with no dependencies)
FirstRenderClosure ==
    [dur |-> SliderMinDuration, fx |-> InitialEffect, k |-> DefaultIntensity]

\* the values the animate callback of the current render closes over
\* (useCallback dependencies duration, selectedEffect, intensity)
CurrentClosure == [dur |-> duration, fx |-> selectedEffect, k |-> intensity]

\* a rescheduled tick that would read the settings of the latest render
TickClosureLive(c) == CurrentClosure

\* the closure a rescheduled tick runs with: requestAnimationFrame is given
\* () => animate(startTime), where animate is the callback of the render that
\* created it, so the tick keeps that render's values
TickClosure(c) == c

\* a test that gives up at half of the run
ContinuesBelowHalf(t) == Lt(t, <<1, 2>>)

\* a test that never lets the run end
ContinuesAlways(t) == TRUE

\* the test "t < 1" that reschedules
Continues(t) == Lt(t, One)

\* a cancellation that removes nothing
cancelNothing(q, id) == q

cancelAnimationFrame(q, id) == {e \in q : e.id # id}

\* the handle requestAnimationFrame returns.  Real handles are never reused;
\* the model reuses a handle once no queued callback carries it.  The only
\* place a handle is remembered is animationFrameRef, and animate overwrites
\* it with the new handle in the step that creates the callback, so a reused
\* handle is never mistaken for an older callback.
FreshId(q) == CHOOSE i \in 1..(Cardinality(q) + 1) : \A e \in q : e.id # i

\* ev: op names the handler that ran last ("none" for the handlers that touch
\* neither the driver nor the images); alerts counts its alert() calls;
\* fx, t, k are the routine it invoked with its progress and intensity ("none"
\* when it invoked none); elapsed and dur are the elapsed time and the
\* duration it computed progress from; prior is
\* the progress playAnimation found; cancelled counts the queued callbacks
\* its cancelAnimationFrame calls removed
Quiet == [op |-> "none", alerts |-> 0, fx |-> "none", t |-> Zero, k |-> 0,
          elapsed |-> 0, dur |-> 0, prior |-> Zero, cancelled |-> 0]

\* sample.on: frames are being watched; sample.taken: one has been kept
NoSample == [on |-> FALSE, taken |-> FALSE, start |-> 0, rel |-> 0, dur |-> 0,
             frame |-> Blank]

\* animate(startTime) run with closure c on queue q, after the caller set
\* isPlaying to playing; rnd is what Math.random() returns in this frame
animate(startTime, c, rnd, q, playing, op, prior) ==
    IF ~mounted
    THEN /\ rafQueue' = q
         /\ isPlaying' = playing
         /\ ev' = [Quiet EXCEPT !.op = op, !.prior = prior]
         /\ UNCHANGED <<progress, surface, animationFrameRef, sample>>
    ELSE LET t == Progress(now - startTime, c.dur)
             fn == getEffectFunction(c.fx)
             id == FreshId(q)
             painted == ApplyEffect(fn, t, c.k, rnd, surface)
         IN /\ progress' = t
            /\ surface' = painted
            /\ ev' = [op |-> op, alerts |-> 0, fx |-> fn, t |-> t, k |-> c.k,
                      elapsed |-> now - startTime, dur |-> c.dur,
                      prior |-> prior,
                      cancelled |-> IF op = "play"
                                    THEN Cardinality(rafQueue \ q) ELSE 0]
            /\ IF Continues(t)
               THEN /\ rafQueue' = q \cup {[id |-> id, startTime |-> startTime,
                                            dur |-> c.dur, fx |-> c.fx, k |-> c.k]}
                    /\ animationFrameRef' = id
                    /\ isPlaying' = playing
               ELSE /\ rafQueue' = q
                    /\ animationFrameRef' = animationFrameRef
                    /\ isPlaying' = FALSE
            /\ \/ sample' = sample
               \/ /\ sample.on /\ ~sample.taken
                  /\ sample' = [on |-> TRUE, taken |-> TRUE, start |-> startTime,
                                rel |-> now - startTime, dur |-> c.dur,
                                frame |-> painted]

\* a guard that rejects only when both images are absent
MissingBoth(b, a) == b = NoImage /\ a = NoImage

\* the guard of playAnimation
MissingInput(b, a) == b = NoImage \/ a = NoImage

\* playAnimation without its cancelAnimationFrame
PlayCancelNothing(q) == q

\* playAnimation's cancellation of the frame remembered in animationFrameRef
PlayCancel(q) ==
    IF animationFrameRef # NoFrame
    THEN cancelAnimationFrame(q, animationFrameRef) ELSE q

\* a start instant that resumes from the progress reached before
StartInstantResumed == now - (progress[1] * duration) \div progress[2]

\* the start instant playAnimation hands to animate: Date.now()
StartInstant == now

\* a play button that works until the first run has completed
playAnimationOnce ==
    /\ mounted
    /\ IF MissingInput(beforeImage, afterImage) \/ progress = One
       THEN /\ ev' = [Quiet EXCEPT !.op = "playRejected", !.alerts = 1]
            /\ UNCHANGED <<mounted, beforeImageRef, afterImageRef, beforeImage,
                           afterImage, decoding, selectedEffect, duration,
                           intensity, isPlaying, progress, animationFrameRef,
                           rafQueue, now, surface, sample>>
       ELSE /\ \E rnd \in 0..MaxRnd :
                 animate(StartInstant, CurrentClosure, rnd, PlayCancel(rafQueue),
                         TRUE, "play", progress)
            /\ UNCHANGED <<mounted, beforeImageRef, afterImageRef, beforeImage,
                           afterImage, decoding, selectedEffect, duration,
                           intensity, now>>

playAnimation ==
    /\ mounted
    /\ IF MissingInput(beforeImage, afterImage)
       THEN /\ ev' = [Quiet EXCEPT !.op = "playRejected", !.alerts = 1]
            /\ UNCHANGED <<mounted, beforeImageRef, afterImageRef, beforeImage,
                           afterImage, decoding, selectedEffect, duration,
                           intensity, isPlaying, progress, animationFrameRef,
                           rafQueue, now, surface, sample>>
       ELSE /\ \E rnd \in 0..MaxRnd :
                 animate(StartInstant, CurrentClosure, rnd, PlayCancel(rafQueue),
                         TRUE, "play", progress)
            /\ UNCHANGED <<mounted, beforeImageRef, afterImageRef, beforeImage,
                           afterImage, decoding, selectedEffect, duration,
                           intensity, now>>

\* the browser runs a queued frame callback
Tick ==
    \E e \in rafQueue : \E rnd \in 0..MaxRnd :
        /\ animate(e.startTime, TickClosure([dur |-> e.dur, fx |-> e.fx, k |-> e.k]),
                   rnd, rafQueue \ {e}, isPlaying, "tick", Zero)
        /\ UNCHANGED <<mounted, beforeImageRef, afterImageRef, beforeImage,
                       afterImage, decoding, selectedEffect, duration,
                       intensity, now>>

\* a stop that only clears the running flag
stopAnimationNoCancel ==
    /\ mounted
    /\ isPlaying' = FALSE
    /\ ev' = [Quiet EXCEPT !.op = "stop"]
    /\ UNCHANGED <<mounted, beforeImageRef, afterImageRef, beforeImage,
                   afterImage, decoding, selectedEffect, duration, intensity,
                   progress, animationFrameRef, rafQueue, now, surface, sample>>

\* a stop that also rewinds the progress bar
stopAnimationRewinds ==
    /\ mounted
    /\ IF animationFrameRef # NoFrame
       THEN /\ rafQueue' = cancelAnimationFrame(rafQueue, animationFrameRef)
            /\ animationFrameRef' = NoFrame
       ELSE UNCHANGED <<rafQueue, animationFrameRef>>
    /\ isPlaying' = FALSE
    /\ progress' = Zero
    /\ ev' = [Quiet EXCEPT !.op = "stop",
                           !.cancelled = Cardinality(rafQueue \ rafQueue')]
    /\ UNCHANGED <<mounted, beforeImageRef, afterImageRef, beforeImage,
                   afterImage, decoding, selectedEffect, duration, intensity,
                   now, surface, sample>>

stopAnimation ==
    /\ mounted
    /\ IF animationFrameRef # NoFrame
       THEN /\ rafQueue' = cancelAnimationFrame(rafQueue, animationFrameRef)
            /\ animationFrameRef' = NoFrame
       ELSE UNCHANGED <<rafQueue, animationFrameRef>>
    /\ isPlaying' = FALSE
    /\ ev' = [Quiet EXCEPT !.op = "stop",
                           !.cancelled = Cardinality(rafQueue \ rafQueue')]
    /\ UNCHANGED <<mounted, beforeImageRef, afterImageRef, beforeImage,
                   afterImage, decoding, selectedEffect, duration, intensity,
                   progress, now, surface, sample>>

\* a cleanup that cancels nothing
UnmountNoCancel ==
    /\ mounted
    /\ mounted' = FALSE
    /\ ev' = [Quiet EXCEPT !.op = "unmount"]
    /\ UNCHANGED <<beforeImageRef, afterImageRef, beforeImage, afterImage,
                   decoding, selectedEffect, duration, intensity, isPlaying,
                   progress, animationFrameRef, rafQueue, now, surface, sample>>

\* the cleanup of the mount effect; the canvas ref is cleared with the DOM
Unmount ==
    /\ mounted
    /\ mounted' = FALSE
    /\ rafQueue' = IF animationFrameRef # NoFrame
                   THEN cancelAnimationFrame(rafQueue, animationFrameRef)
                   ELSE rafQueue
    /\ ev' = [Quiet EXCEPT !.op = "unmount",
                           !.cancelled = Cardinality(rafQueue \ rafQueue')]
    /\ UNCHANGED <<beforeImageRef, afterImageRef, beforeImage, afterImage,
                   decoding, selectedEffect, duration, intensity, isPlaying,
                   progress, animationFrameRef, now, surface, sample>>

---------------------------------------------------------------------------
(* Settings *)

setSelectedEffect ==
    /\ mounted
    /\ \E e \in Effects : selectedEffect' = e
    /\ ev' = Quiet
    /\ UNCHANGED <<mounted, beforeImageRef, afterImageRef, beforeImage,
                   afterImage, decoding, duration, intensity, isPlaying,
                   progress, animationFrameRef, rafQueue, now, surface, sample>>

setDuration ==
    /\ mounted
    /\ \E d \in Durations : duration' = d
    /\ ev' = Quiet
    /\ UNCHANGED <<mounted, beforeImageRef, afterImageRef, beforeImage,
                   afterImage, decoding, selectedEffect, intensity, isPlaying,
                   progress, animationFrameRef, rafQueue, now, surface, sample>>

setIntensity ==
    /\ mounted
    /\ \E i \in Intensities : intensity' = i
    /\ ev' = Quiet
    /\ UNCHANGED <<mounted, beforeImageRef, afterImageRef, beforeImage,
                   afterImage, decoding, selectedEffect, duration, isPlaying,
                   progress, animationFrameRef, rafQueue, now, surface, sample>>

---------------------------------------------------------------------------
(* The image loader *)

\* handleImageUpload up to its await
handleImageUpload ==
    /\ mounted
    /\ \E type \in {"before", "after"} : \E file \in Files \cup {BadFile, NoFile} :
          IF file = NoFile
          THEN decoding' = decoding
          ELSE /\ Cardinality(decoding) < MaxDecoding
               /\ decoding' = decoding \cup {[type |-> type, file |-> file]}
    /\ ev' = Quiet
    /\ UNCHANGED <<mounted, beforeImageRef, afterImageRef, beforeImage,
                   afterImage, selectedEffect, duration, intensity, isPlaying,
                   progress, animationFrameRef, rafQueue, now, surface, sample>>

\* a try block that stores the decoded image in both slots
DecodeResolveBothSlots ==
    \E d \in decoding :
        /\ d.file \in Files
        /\ decoding' = decoding \ {d}
        /\ beforeImageRef' = d.file
        /\ afterImageRef' = d.file
        /\ beforeImage' = IF mounted THEN d.file ELSE beforeImage
        /\ afterImage' = IF mounted THEN d.file ELSE afterImage
        /\ ev' = [Quiet EXCEPT !.op = "loaded"]
        /\ UNCHANGED <<mounted, selectedEffect, duration, intensity, isPlaying,
                       progress, animationFrameRef, rafQueue, now, surface,
                       sample>>

\* a try block that also stops the run
DecodeResolveStopsRun ==
    \E d \in decoding :
        /\ d.file \in Files
        /\ decoding' = decoding \ {d}
        /\ IF d.type = "before"
           THEN /\ beforeImageRef' = d.file
                /\ beforeImage' = IF mounted THEN d.file ELSE beforeImage
                /\ UNCHANGED <<afterImageRef, afterImage>>
           ELSE /\ afterImageRef' = d.file
                /\ afterImage' = IF mounted THEN d.file ELSE afterImage
                /\ UNCHANGED <<beforeImageRef, beforeImage>>
        /\ rafQueue' = {}
        /\ isPlaying' = FALSE
        /\ ev' = [Quiet EXCEPT !.op = "loaded"]
        /\ UNCHANGED <<mounted, selectedEffect, duration, intensity, progress,
                       animationFrameRef, now, surface, sample>>

\* loadImage resolves: the rest of the try block
DecodeResolve ==
    \E d \in decoding :
        /\ d.file # BadFile
        /\ decoding' = decoding \ {d}
        /\ IF d.type = "before"
           THEN /\ beforeImageRef' = d.file
                /\ beforeImage' = IF mounted THEN d.file ELSE beforeImage
                /\ UNCHANGED <<afterImageRef, afterImage>>
           ELSE /\ afterImageRef' = d.file
                /\ afterImage' = IF mounted THEN d.file ELSE afterImage
                /\ UNCHANGED <<beforeImageRef, beforeImage>>
        /\ ev' = [Quiet EXCEPT !.op = "loaded"]
        /\ UNCHANGED <<mounted, selectedEffect, duration, intensity, isPlaying,
                       progress, animationFrameRef, rafQueue, now, surface,
                       sample>>

\* a catch block that also empties the slot the upload was for
DecodeRejectClearsSlot ==
    \E d \in decoding :
        /\ d.file = BadFile
        /\ decoding' = decoding \ {d}
        /\ IF d.type = "before"
           THEN /\ beforeImageRef' = NoImage
                /\ beforeImage' = NoImage
                /\ UNCHANGED <<afterImageRef, afterImage>>
           ELSE /\ afterImageRef' = NoImage
                /\ afterImage' = NoImage
                /\ UNCHANGED <<beforeImageRef, beforeImage>>
        /\ ev' = [Quiet EXCEPT !.op = "loadFailed", !.alerts = 1]
        /\ UNCHANGED <<mounted, selectedEffect, duration, intensity, isPlaying,
                       progress, animationFrameRef, rafQueue, now, surface,
                       sample>>

\* loadImage rejects: the catch block
DecodeReject ==
    \E d \in decoding :
        /\ d.file = BadFile
        /\ decoding' = decoding \ {d}
        /\ ev' = [Quiet EXCEPT !.op = "loadFailed", !.alerts = 1]
        /\ UNCHANGED <<mounted, beforeImageRef, afterImageRef, beforeImage,
                       afterImage, selectedEffect, duration, intensity,
                       isPlaying, progress, animationFrameRef, rafQueue, now,
                       surface, sample>>

---------------------------------------------------------------------------
(* The clock *)

\* Date.now() moves on; once unmounted the component reads no clock
ClockAdvance ==
    /\ mounted
    /\ \E n \in 1..MaxAdvance :
          /\ now + n * Quantum <= MaxClock * Quantum
          /\ now' = now + n * Quantum
    /\ ev' = Quiet
    /\ UNCHANGED <<mounted, beforeImageRef, afterImageRef, beforeImage,
                   afterImage, decoding, selectedEffect, duration, intensity,
                   isPlaying, progress, animationFrameRef, rafQueue, surface,
                   sample>>

---------------------------------------------------------------------------

Init ==
    /\ mounted = TRUE
    /\ beforeImageRef = NoImage
    /\ afterImageRef = NoImage
    /\ beforeImage = NoImage
    /\ afterImage = NoImage
    /\ decoding = {}
    /\ selectedEffect = InitialEffect
    /\ duration \in Durations
    /\ intensity \in Intensities
    /\ isPlaying = FALSE
    /\ progress = Zero
    /\ animationFrameRef = NoFrame
    /\ rafQueue = {}
    /\ now = 0
    /\ surface = Blank
    /\ ev = Quiet
    /\ sample = NoSample

Next ==
    \/ playAnimation
    \/ Tick
    \/ stopAnimation
    \/ Unmount
    \/ setSelectedEffect
    \/ setDuration
    \/ setIntensity
    \/ handleImageUpload
    \/ DecodeResolve
    \/ DecodeReject
    \/ ClockAdvance

Spec == Init /\ [][Next]_vars

\* Runs compared: both images are loaded, one of the 50 effects, a duration
\* and an intensity are selected, and from there the user plays, stops and
\* picks effects; one painted frame is kept in sample, with the run and the
\* instant it belongs to.
DetInit ==
    /\ mounted = TRUE
    /\ beforeImageRef = 1
    /\ afterImageRef = MaxFile
    /\ beforeImage = beforeImageRef
    /\ afterImage = afterImageRef
    /\ decoding = {}
    /\ selectedEffect \in AllEffects
    /\ duration \in Durations
    /\ intensity \in Intensities
    /\ isPlaying = FALSE
    /\ progress = Zero
    /\ animationFrameRef = NoFrame
    /\ rafQueue = {}
    /\ now = 0
    /\ surface = Blank
    /\ ev = Quiet
    /\ sample = [NoSample EXCEPT !.on = TRUE]

DetNext ==
    \/ playAnimation
    \/ Tick
    \/ stopAnimation
    \/ setSelectedEffect
    \/ ClockAdvance

DetSpec == DetInit /\ [][DetNext]_vars

\* Runs followed to their end: both images are loaded, and the user plays,
\* stops, changes settings and leaves; the browser keeps running queued frame
\* callbacks and the clock keeps moving (up to the end of the observed
\* window).
LiveInit ==
    /\ mounted = TRUE
    /\ beforeImageRef = 1
    /\ afterImageRef = MaxFile
    /\ beforeImage = beforeImageRef
    /\ afterImage = afterImageRef
    /\ decoding = {}
    /\ selectedEffect = InitialEffect
    /\ duration \in Durations
    /\ intensity \in Intensities
    /\ isPlaying = FALSE
    /\ progress = Zero
    /\ animationFrameRef = NoFrame
    /\ rafQueue = {}
    /\ now = 0
    /\ surface = Blank
    /\ ev = Quiet
    /\ sample = NoSample

LiveNext ==
    \/ playAnimation
    \/ Tick
    \/ stopAnimation
    \/ Unmount
    \/ setSelectedEffect
    \/ setDuration
    \/ setIntensity
    \/ ClockAdvance

LiveSpec ==
    LiveInit /\ [][LiveNext]_vars /\ WF_vars(Tick) /\ WF_vars(ClockAdvance)

\* Images replaced: both images are loaded (a picture that is none of the
\* files the user uploads next), and the user plays, stops and uploads
\* files while the browser runs queued frame callbacks and decodes.
LoadInit ==
    /\ mounted = TRUE
    /\ beforeImageRef = MaxFile + 1
    /\ afterImageRef = MaxFile + 1
    /\ beforeImage = beforeImageRef
    /\ afterImage = afterImageRef
    /\ decoding = {}
    /\ selectedEffect = InitialEffect
    /\ duration \in Durations
    /\ intensity \in Intensities
    /\ isPlaying = FALSE
    /\ progress = Zero
    /\ animationFrameRef = NoFrame
    /\ rafQueue = {}
    /\ now = 0
    /\ surface = Blank
    /\ ev = Quiet
    /\ sample = NoSample

LoadNext ==
    \/ playAnimation
    \/ Tick
    \/ stopAnimation
    \/ handleImageUpload
    \/ DecodeResolve
    \/ DecodeReject
    \/ ClockAdvance

LoadSpec == LoadInit /\ [][LoadNext]_vars

\* Uploads that overlap: the user selects one file after another for a
\* slot without waiting for the decodes.  So that the order of selection can
\* be read off the files, the user selects them in the order of their
\* numbers: the file after the newest one that is being decoded for the slot
\* or shown in it.  One decode more than MaxDecoding may be in flight, and
\* one file more than MaxFile is at hand.
InFlight(type) == {d \in decoding : d.type = type}

Newest(type) ==
    LET held == IF type = "before" THEN beforeImageRef ELSE afterImageRef
        seen == {d.file : d \in InFlight(type)} \cup {held}
    IN CHOOSE f \in seen : \A g \in seen : g <= f

\* handleImageUpload up to its await, for the next file
handleNextUpload ==
    /\ mounted
    /\ \E type \in {"before", "after"} :
          LET file == Newest(type) + 1
          IN /\ file <= MaxFile + 1
             /\ Cardinality(decoding) < MaxDecoding + 1
             /\ decoding' = decoding \cup {[type |-> type, file |-> file]}
    /\ ev' = Quiet
    /\ UNCHANGED <<mounted, beforeImageRef, afterImageRef, beforeImage,
                   afterImage, selectedEffect, duration, intensity, isPlaying,
                   progress, animationFrameRef, rafQueue, now, surface, sample>>

RaceInit ==
    /\ mounted = TRUE
    /\ beforeImageRef = NoImage
    /\ afterImageRef = NoImage
    /\ beforeImage = NoImage
    /\ afterImage = NoImage
    /\ decoding = {}
    /\ selectedEffect = InitialEffect
    /\ duration \in Durations
    /\ intensity \in Intensities
    /\ isPlaying = FALSE
    /\ progress = Zero
    /\ animationFrameRef = NoFrame
    /\ rafQueue = {}
    /\ now = 0
    /\ surface = Blank
    /\ ev = Quiet
    /\ sample = NoSample

RaceNext ==
    \/ playAnimation
    \/ Tick
    \/ stopAnimation
    \/ handleNextUpload
    \/ DecodeResolve
    \/ ClockAdvance

RaceSpec == RaceInit /\ [][RaceNext]_vars

\* Instances constructed with props: the component takes defaultDuration
\* and defaultIntensity as they come (any number a caller passes; here the
\* ends of the sliders, the default intensity, and values half a second or
\* a half beyond the ends), both images are loaded, and the user plays,
\* stops and moves the sliders.
DefaultDurations ==
    {SliderMinDuration - Quantum, SliderMinDuration, SliderMaxDuration,
     SliderMaxDuration + Quantum}

DefaultIntensities ==
    {SliderMinIntensity, DefaultIntensity, SliderMaxIntensity,
     SliderMaxIntensity + SliderMaxIntensity \div 2}

PropsInit ==
    /\ mounted = TRUE
    /\ beforeImageRef = 1
    /\ afterImageRef = MaxFile
    /\ beforeImage = beforeImageRef
    /\ afterImage = afterImageRef
    /\ decoding = {}
    /\ selectedEffect = InitialEffect
    /\ duration \in DefaultDurations
    /\ intensity \in DefaultIntensities
    /\ isPlaying = FALSE
    /\ progress = Zero
    /\ animationFrameRef = NoFrame
    /\ rafQueue = {}
    /\ now = 0
    /\ surface = Blank
    /\ ev = Quiet
    /\ sample = NoSample

PropsNext ==
    \/ playAnimation
    \/ Tick
    \/ stopAnimation
    \/ setDuration
    \/ setIntensity
    \/ ClockAdvance

PropsSpec == PropsInit /\ [][PropsNext]_vars

---------------------------------------------------------------------------
(* The effect routines on their own: a routine is handed a canvas, reads   *)
(* the two image refs and the intensity of its render, and is called with  *)
(* a progress value.                                                       *)

\* the progress values the routines are called with
FxProgress == {Zero, <<1, 4>>, Half, <<3, 4>>, One}

\* the intensities of the renders the routines are taken from (the slider's
\* ends and the default), in percent
FxIntensities == {0, DefaultIntensity, 100}

\* a canvas some earlier frame was painted on
Earlier == [fx |-> "fadeCross", t |-> Half, k |-> DefaultIntensity, before |-> 1,
            after |-> 1, noise |-> 0, under |-> "blank"]

\* a call that wipes the canvas before it looks at the images
InvokeClearsFirst(fx, t, k, rnd, surf) ==
    IF beforeImageRef = NoImage \/ afterImageRef = NoImage
    THEN Blank
    ELSE ApplyEffect(fx, t, k, rnd, surf)

\* effectFn(ctx, t) with effectFn = getEffectFunction()
Invoke(fx, t, k, rnd, surf) == ApplyEffect(fx, t, k, rnd, surf)

InvokeEffect ==
    /\ \E t \in FxProgress : \E rnd \in 0..MaxRnd :
          LET fn == getEffectFunction(selectedEffect)
          IN /\ surface' = Invoke(fn, t, intensity, rnd, surface)
             /\ ev' = [Quiet EXCEPT !.op = "effect", !.fx = fn, !.t = t,
                                    !.k = intensity]
    /\ UNCHANGED <<mounted, beforeImageRef, afterImageRef, beforeImage,
                   afterImage, decoding, selectedEffect, duration, intensity,
                   isPlaying, progress, animationFrameRef, rafQueue, now,
                   sample>>

FxInit ==
    /\ mounted = TRUE
    /\ beforeImageRef \in Pictures \cup {NoImage}
    /\ afterImageRef \in Pictures \cup {NoImage}
    /\ beforeImage = beforeImageRef
    /\ afterImage = afterImageRef
    /\ decoding = {}
    /\ selectedEffect \in AllEffects
    /\ duration = SliderMinDuration
    /\ intensity \in FxIntensities
    /\ isPlaying = FALSE
    /\ progress = Zero
    /\ animationFrameRef = NoFrame
    /\ rafQueue = {}
    /\ now = 0
    /\ surface \in {Blank, Earlier}
    /\ ev = Quiet
    /\ sample = NoSample

FxNext ==
    \/ InvokeEffect
    \/ setSelectedEffect

FxSpec == FxInit /\ [][FxNext]_vars

---------------------------------------------------------------------------
(* Properties of the driver *)

EitherImageAbsent == beforeImage = NoImage \/ afterImage = NoImage

Images == <<beforeImageRef, afterImageRef, beforeImage, afterImage>>
Settings == <<selectedEffect, duration, intensity>>

\* C1: a play request made while the before or the after image is absent
\* produces exactly one notice, runs and schedules no tick, and leaves the
\* running flag, progress, the surface, the image slots and the settings as
\* they were.
C1_RejectedPlayChangesNothing ==
    [][(EitherImageAbsent /\ ev'.op \in {"play", "playRejected"})
        => /\ ev'.op = "playRejected"
           /\ ev'.alerts = 1
           /\ ev'.fx = "none"
           /\ rafQueue' = rafQueue
           /\ animationFrameRef' = animationFrameRef
           /\ isPlaying' = isPlaying
           /\ progress' = progress
           /\ surface' = surface
           /\ Images' = Images
           /\ Settings' = Settings]_vars

C1_Witness ==
    /\ ev.op = "playRejected"
    /\ ev.alerts = 1
    /\ beforeImage # NoImage
    /\ afterImage = NoImage

\* C2: a stop request issued while Running removes the pending tick and makes
\* the driver Idle in that step; and while nothing is pending, every step
\* that is not an accepted play request runs no tick, invokes no effect and
\* leaves the surface alone.
C2_StopHalts ==
    [][/\ (isPlaying /\ ev'.op = "stop") => (rafQueue' = {} /\ ~isPlaying')
       /\ (rafQueue = {} /\ ev'.op # "play")
            => /\ rafQueue' = {}
               /\ ev'.op # "tick"
               /\ ev'.fx = "none"
               /\ surface' = surface]_vars

C2_Witness ==
    /\ ev.op = "stop"
    /\ ev.cancelled = 1
    /\ ~isPlaying
    /\ rafQueue = {}
    /\ Lt(Zero, progress)
    /\ Lt(progress, One)

C4_ProgressMonotone ==
    [][ev'.op = "tick" => Leq(progress, progress')]_vars

C4_Witness ==
    /\ ev.op = "tick"
    /\ Lt(Zero, progress)
    /\ \E e \in rafQueue :
          /\ e.dur # duration
          /\ e.fx # selectedEffect
          /\ e.k # intensity

\* C5: a tick of a run uses the duration, the effect and the intensity that
\* are selected when it executes.
C5_TickReadsCurrentSettings ==
    [][(ev'.op = "tick" /\ mounted)
        => \E e \in rafQueue :
              /\ progress' = Progress(now - e.startTime, duration)
              /\ ev'.fx = getEffectFunction(selectedEffect)
              /\ ev'.k = intensity]_vars

\* a tick has run with a duration, an effect and an intensity that are all
\* three no longer the selected ones
C5_StaleTick ==
    /\ ev.op = "tick"
    /\ mounted
    /\ ev.dur # duration
    /\ ev.fx # getEffectFunction(selectedEffect)
    /\ ev.k # intensity
    /\ surface.fx = ev.fx
    /\ surface.k = ev.k

\* the end of the observed clock window
Horizon == MaxClock * Quantum

\* a run is under way that can finish inside the observed clock window
RunAlive ==
    /\ mounted
    /\ isPlaying
    /\ \E e \in rafQueue : e.startTime + e.dur <= Horizon

Completed ==
    /\ ev.op = "tick"
    /\ ~isPlaying
    /\ rafQueue = {}
    /\ progress = One
    /\ surface.t = One

\* C6: with frame callbacks and the clock kept going, every run (of either
\* modelled duration, started early enough to finish inside the observed
\* clock window) that is not stopped, restarted or unmounted paints a frame
\* with progress 1 and leaves the driver Idle.
C6_RunCompletes ==
    RunAlive ~> (Completed \/ ev.op \in {"stop", "play", "unmount"})

C6_Witness ==
    /\ Completed
    /\ ev.dur = SliderMinDuration + Quantum
    /\ ev.elapsed >= ev.dur
    /\ mounted

\* C7: a tick that computes progress 1 makes the driver Idle and schedules
\* nothing; a tick that computes less leaves it Running with exactly one
\* tick scheduled; and the driver never becomes Idle by itself otherwise.
C7_EndsExactlyAtOne ==
    [][/\ (ev'.op = "tick" /\ mounted)
            => IF progress' = One
               THEN ~isPlaying' /\ rafQueue' = {} /\ surface'.t = One
               ELSE /\ Lt(progress', One)
                    /\ isPlaying'
                    /\ Cardinality(rafQueue') = 1
       /\ (isPlaying /\ ~isPlaying' /\ ev'.op # "stop")
            => ev'.op = "tick" /\ progress' = One /\ surface'.t = One]_vars

C7_Witness ==
    /\ ev.op = "tick"
    /\ ev.elapsed = duration
    /\ progress = One
    /\ surface.t = One
    /\ ~isPlaying
    /\ rafQueue = {}

\* C8: at most one frame callback is pending, also after a play request
\* issued while a run is Running.
C8_AtMostOnePending == Cardinality(rafQueue) <= 1

C8_Witness ==
    /\ ev.op = "play"
    /\ ev.cancelled = 1
    /\ isPlaying
    /\ Cardinality(rafQueue) = 1

\* C9: an accepted play request sets progress to 0 and schedules the run
\* from the instant of the request; every tick computes progress from the
\* start instant of the callback it runs and hands that instant on.
C9_FreshRun ==
    [][/\ ev'.op = "play"
            => /\ progress' = Zero
               /\ \A e \in rafQueue' : e.startTime = now
       /\ (ev'.op = "tick" /\ mounted)
            => \E e \in rafQueue :
                  /\ progress' = Progress(now - e.startTime, e.dur)
                  /\ \A f \in rafQueue' : f.startTime = e.startTime]_vars

C9_Witness ==
    /\ ev.op = "play"
    /\ Lt(Zero, ev.prior)
    /\ progress = Zero
    /\ \E e \in rafQueue : e.startTime = now /\ now > 0

\* the last handler painted a frame of another run than the sampled one, at
\* the same instant after its run's start, with the same effect, duration,
\* intensity and images
SameInputsAsSample ==
    /\ sample.taken
    /\ ev.op \in {"play", "tick"}
    /\ now - ev.elapsed # sample.start
    /\ ev.elapsed = sample.rel
    /\ ev.dur = sample.dur
    /\ ev.fx = sample.frame.fx
    /\ ev.k = sample.frame.k
    /\ beforeImageRef = sample.frame.before
    /\ afterImageRef = sample.frame.after

\* C10: two runs with the same images, effect, duration and intensity paint
\* the same frame at the same instant after their start, for every effect
\* but filmBurn and particleBurst.
C10_RunsRepeat ==
    (SameInputsAsSample /\ ev.fx \notin {"filmBurn", "particleBurst"})
        => surface = sample.frame

C10_Witness ==
    /\ SameInputsAsSample
    /\ ev.fx = "shatter"
    /\ ev.op = "tick"
    /\ Lt(Zero, ev.t)
    /\ Lt(ev.t, One)
    /\ surface = sample.frame

---------------------------------------------------------------------------
(* Properties of the effect routines *)

\* the frame on the canvas was painted by a routine at progress t
PaintedAt(t) == surface.fx \in AllEffects /\ surface.t = t

\* a tenth of the canvas is the most that counts as a negligible part
Negligible(share) == Leq(share, <<1, 10>>)

\* C11: for every one of the 50 effects, invoked with both images present
\* and progress 0, the frame shows the before image over most of the canvas
\* and the after image on at most a negligible part of it.
C11_BeforeDominatesAtZero ==
    PaintedAt(Zero) =>
        /\ Lt(Half, Shown(surface).before)
        /\ Negligible(Shown(surface).after)

\* a frame painted at progress 0 that shows nothing of the before image
C11_BlankFirstFrame ==
    /\ ev.op = "effect"
    /\ PaintedAt(Zero)
    /\ surface.fx = "kaleidoscope"
    /\ Shown(surface).before = Zero

\* C12: for every one of the 50 effects, invoked with both images present
\* and progress 1, the frame shows the after image over most of the canvas
\* and the before image on at most a negligible part of it.
C12_AfterDominatesAtOne ==
    PaintedAt(One) =>
        /\ Lt(Half, Shown(surface).after)
        /\ Negligible(Shown(surface).before)

\* a frame painted at progress 1 that still shows the before image on half
\* of the canvas
C12_HalfBeforeLastFrame ==
    /\ ev.op = "effect"
    /\ PaintedAt(One)
    /\ surface.fx = "checkerboard"
    /\ Shown(surface).before = Half

\* C13: invoking any effect, at any progress, while the before bitmap or the
\* after bitmap is absent completes and leaves the canvas exactly as it was.
C13_AbsentBitmapNoOp ==
    [][(ev'.op = "effect" /\ (beforeImageRef = NoImage \/ afterImageRef = NoImage))
          => surface' = surface]_vars

\* an effect invoked without the before bitmap on a canvas that held a frame
C13_Witness ==
    /\ ev.op = "effect"
    /\ beforeImageRef = NoImage
    /\ afterImageRef # NoImage
    /\ surface = Earlier

\* the frames a call with these inputs can leave: one per value of the
\* random draws, each on a cleared canvas
FramesOf(fx, t, k, b, a) ==
    {[fx |-> fx, t |-> t, k |-> k, before |-> b, after |-> a, noise |-> n,
      under |-> "blank"] : n \in 0..MaxRnd}

\* C14: with both bitmaps present, the frame an effect leaves is determined
\* by the effect, the progress, the intensity, the two bitmaps and the
\* frame's own random draws; nothing of what the canvas held before the call
\* remains.
C14_FrameFromInputsOnly ==
    [][(ev'.op = "effect" /\ beforeImageRef # NoImage /\ afterImageRef # NoImage)
          => surface' \in FramesOf(ev'.fx, ev'.t, ev'.k,
                                   beforeImageRef, afterImageRef)]_vars

\* a second effect has painted over the frame of a first one
C14_Witness ==
    /\ ev.op = "effect"
    /\ surface.fx = "rgbGlitch"
    /\ surface.t = <<1, 4>>
    /\ surface.before = 2
    /\ surface.after = 3
    /\ selectedEffect = "rgbGlitch"

---------------------------------------------------------------------------
(* Properties of the loader and the driver *)

\* C15: a failed decode produces exactly one notice and changes nothing
\* else: both slots and both refs keep their content, and the running flag,
\* progress, the pending tick, the settings and the canvas are unchanged.
C15_DecodeFailureOnlyNotifies ==
    [][ev'.op = "loadFailed"
          => /\ ev'.alerts = 1
             /\ UNCHANGED <<beforeImage, afterImage, beforeImageRef,
                            afterImageRef, isPlaying, progress, rafQueue,
                            animationFrameRef, selectedEffect, duration,
                            intensity, surface, mounted>>]_vars

\* a decode failed during a run, with both slots set
C15_Witness ==
    /\ ev.op = "loadFailed"
    /\ ev.alerts = 1
    /\ isPlaying
    /\ rafQueue # {}
    /\ beforeImage # NoImage
    /\ afterImage # NoImage

\* C16: while either image slot is unset the driver is Idle, no tick is
\* pending and progress is 0; while the driver is Running, a tick is pending
\* or a tick has just run, both bitmaps the routines read are present, and a
\* tick has painted a frame.
C16_IdleUntilBothImages ==
    /\ EitherImageAbsent =>
          /\ ~isPlaying
          /\ rafQueue = {}
          /\ progress = Zero
          /\ surface = Blank
    /\ (isPlaying \/ rafQueue # {} \/ ev.op = "tick") =>
          /\ beforeImageRef # NoImage
          /\ afterImageRef # NoImage
    /\ ev.op = "tick" =>
          /\ surface.fx = ev.fx
          /\ surface.t = ev.t

\* a play request and a finished upload with one slot still unset
C16_Witness ==
    /\ ev.op = "loaded"
    /\ beforeImage = NoImage
    /\ afterImage # NoImage
    /\ ~isPlaying
    /\ rafQueue = {}

\* C17: an upload, and a decode that completes or fails, leave the run as it
\* is: the running flag, progress, the pending tick, the canvas and the
\* clock reading are unchanged by it; in the state a decode completes or
\* fails in during a run (the decode was in flight there), the pending tick
\* can run and play and stop can be requested; and every tick draws with
\* the bitmaps the refs hold when it runs.
C17_DecodeLeavesRunAlone ==
    [][/\ (ev'.op \in {"loaded", "loadFailed"} \/ decoding' # decoding)
            => UNCHANGED <<isPlaying, progress, rafQueue, animationFrameRef,
                           surface, now>>
       /\ (ev'.op \in {"loaded", "loadFailed"} /\ rafQueue # {})
            => (ENABLED Tick) /\ (ENABLED playAnimation) /\ (ENABLED stopAnimation)
       /\ ev'.op = "tick"
            => /\ surface'.before = beforeImageRef
               /\ surface'.after = afterImageRef]_vars

\* a decode has completed during a run: the before ref holds the new
\* bitmap, the last frame still shows the old one, the tick stays pending
C17_Witness ==
    /\ ev.op = "loaded"
    /\ isPlaying
    /\ rafQueue # {}
    /\ Lt(Zero, progress)
    /\ beforeImageRef = 1
    /\ surface.before = MaxFile + 1

\* C18: in every Idle state of a mounted instance with both images set, a
\* play request is accepted: it raises no notice, makes the driver Running
\* with exactly one tick pending and progress 0, and paints the first frame
\* of the selected effect.
C18_IdleCanPlayAgain ==
    [][(/\ mounted
        /\ ~isPlaying
        /\ ~EitherImageAbsent
        /\ ev'.op \in {"play", "playRejected"})
          => /\ ev'.op = "play"
             /\ ev'.alerts = 0
             /\ isPlaying'
             /\ Cardinality(rafQueue') = 1
             /\ progress' = Zero
             /\ surface'.t = Zero
             /\ surface'.fx = getEffectFunction(selectedEffect)]_vars

\* a run was played to its end and a new play request was accepted
C18_Witness ==
    /\ ev.op = "play"
    /\ ev.prior = One
    /\ ev.alerts = 0
    /\ isPlaying
    /\ Cardinality(rafQueue) = 1

---------------------------------------------------------------------------
(* Properties of single effects and of the settings *)

\* the intensities a cross fade is compared over, in percent
FadeIntensities == {0, IntensityStep, DefaultIntensity, 100}

\* C19: a fadeCross frame at progress t is the before image drawn over the
\* whole canvas at opacity 1 - t and then the after image drawn over it at
\* opacity t, the two opacities summing to 1, whatever the intensity; the
\* frame painted when half of the duration has elapsed has both at 1/2.
C19_FadeCrossOpacities ==
    surface.fx = "fadeCross" =>
        LET layers == LayersOf(surface)
        IN /\ Len(layers) = 2
           /\ layers[1].img = "before" /\ layers[2].img = "after"
           /\ layers[1].alpha = Sub(One, surface.t)
           /\ layers[2].alpha = surface.t
           /\ Add(layers[1].alpha, layers[2].alpha) = One
           /\ layers[1].cover = One /\ layers[2].cover = One
           /\ \A k \in FadeIntensities :
                 EffectLayers("fadeCross", surface.t, k, surface.before,
                              surface.after) = layers
           /\ (ev.fx = "fadeCross" /\ ev.t = surface.t /\ 2 * ev.elapsed = ev.dur)
                 => layers[1].alpha = Half /\ layers[2].alpha = Half

\* a tick has painted the fadeCross frame at half of the duration
C19_Witness ==
    /\ ev.op = "tick"
    /\ ev.fx = "fadeCross"
    /\ 2 * ev.elapsed = ev.dur
    /\ surface.fx = "fadeCross"
    /\ surface.t = Half

\* C20: in every reachable state the intensity lies in [0,1] and the
\* duration in 1 to 10 seconds, whatever defaults the instance was
\* constructed with and whatever the sliders were moved to.
C20_SettingsInRange ==
    /\ intensity \in SliderMinIntensity..SliderMaxIntensity
    /\ duration \in SliderMinDuration..SliderMaxDuration

\* a run is driven by a duration below 1 s and an intensity above 1
C20_OutOfRangeRun ==
    /\ ev.op = "tick"
    /\ ev.dur < SliderMinDuration
    /\ ev.k > SliderMaxIntensity
    /\ duration = ev.dur
    /\ intensity = ev.k

---------------------------------------------------------------------------
(* Further properties of the driver, the loader and the routines *)

\* C21: an accepted play request starts its run with the effect, duration
\* and intensity selected at that moment, whatever was selected or played
\* before, and hands exactly these to the tick it schedules; every tick
\* uses the values of the callback it runs and hands them on.
C21_RunUsesSettingsAtPlay ==
    [][/\ ev'.op = "play"
            => /\ ev'.fx = getEffectFunction(selectedEffect)
               /\ ev'.dur = duration
               /\ ev'.k = intensity
               /\ \A e \in rafQueue' :
                     e.fx = selectedEffect /\ e.dur = duration /\ e.k = intensity
       /\ (ev'.op = "tick" /\ mounted)
            => \E e \in rafQueue :
                  /\ ev'.fx = getEffectFunction(e.fx)
                  /\ ev'.dur = e.dur
                  /\ ev'.k = e.k
                  /\ \A f \in rafQueue' :
                        f.fx = e.fx /\ f.dur = e.dur /\ f.k = e.k]_vars

\* after a completed run, a run was started with another effect, duration
\* and intensity than the built-in ones
C21_Witness ==
    /\ ev.op = "play"
    /\ ev.prior = One
    /\ ev.fx = "rgbGlitch"
    /\ ev.dur = SliderMinDuration + Quantum
    /\ ev.k = IntensityStep

\* C22: a decode that completes successfully stores its image in the slot
\* (and the ref) it was started for and changes nothing else: the other
\* slot, the running flag, progress, the pending tick, the settings and the
\* canvas are unchanged; and no step of any operation empties a slot or a
\* ref that holds an image.
C22_LoadReplacesOneSlot ==
    [][/\ ev'.op = "loaded"
            => /\ \E d \in decoding \ decoding' :
                     IF d.type = "before"
                     THEN /\ beforeImageRef' = d.file
                          /\ mounted => beforeImage' = d.file
                          /\ UNCHANGED <<afterImageRef, afterImage>>
                     ELSE /\ afterImageRef' = d.file
                          /\ mounted => afterImage' = d.file
                          /\ UNCHANGED <<beforeImageRef, beforeImage>>
               /\ UNCHANGED <<isPlaying, progress, rafQueue, animationFrameRef,
                              selectedEffect, duration, intensity, surface>>
       /\ beforeImage # NoImage => beforeImage' # NoImage
       /\ afterImage # NoImage => afterImage' # NoImage
       /\ beforeImageRef # NoImage => beforeImageRef' # NoImage
       /\ afterImageRef # NoImage => afterImageRef' # NoImage]_vars

\* the after slot was loaded again during a run; the before slot is set
C22_Witness ==
    /\ ev.op = "loaded"
    /\ isPlaying
    /\ rafQueue # {}
    /\ Lt(Zero, progress)
    /\ surface.after # NoImage
    /\ beforeImage # NoImage
    /\ afterImage # NoImage

GridEffects == {"checkerboard", "randomBlocks", "gridFlip"}

\* C23: in a frame of checkerboard, randomBlocks or gridFlip every cell of
\* the grid has a delay between 0 and 0.5 and a local progress
\* clamp((t - delay) * 2, 0, 1) that does not decrease with t; at progress 0
\* no cell shows the after image and at progress 1 every cell shows it in
\* full.
C23_GridCellsReveal ==
    surface.fx \in GridEffects =>
        \A i, j \in 0..(GridSize(surface.fx) - 1) :
            LET delay == CellDelay(surface.fx, i, j)
            IN /\ Leq(Zero, delay) /\ Leq(delay, Half)
               /\ \A t1, t2 \in FxProgress :
                     Leq(t1, t2) => Leq(CellT(t1, delay), CellT(t2, delay))
               /\ surface.t = Zero => CellAfter(surface.fx, Zero, i, j) = Zero
               /\ surface.t = One => CellAfter(surface.fx, One, i, j) = One

\* the last frame of a checkerboard run: cell (0, 1) shows nothing of the
\* after image although its local progress is 1
C23_CellNeverRevealed ==
    /\ ev.op = "effect"
    /\ surface.fx = "checkerboard"
    /\ surface.t = One
    /\ CellT(One, CellDelay("checkerboard", 0, 1)) = One
    /\ CellAfter("checkerboard", One, 0, 1) = Zero

\* C24: each of the 50 ids the picker offers has a case of its own in
\* getEffectFunction, with a routine no other id is dispatched to; every
\* other value is dispatched to the routine of shockZoom, the effect selected
\* initially; the routine invoked for a frame is the one of the selection.
C24_OneRoutinePerEffect ==
    /\ Cardinality(AllEffects) = 50
    /\ selectedEffect \in AllEffects
    /\ \E i \in 1..Len(SwitchCases) : SwitchCases[i][1] = selectedEffect
    /\ \A other \in AllEffects \ {selectedEffect} :
          EffectRoutine(other) # EffectRoutine(selectedEffect)
    /\ \A v \in OtherValues :
          /\ v \notin AllEffects
          /\ EffectRoutine(v) = EffectRoutine(InitialEffect)
          /\ getEffectFunction(v) = InitialEffect
    /\ ev.op = "effect" =>
          /\ ev.fx = getEffectFunction(selectedEffect)
          /\ EffectRoutine(ev.fx) = EffectRoutine(selectedEffect)

\* the last effect of the picker has been invoked
C24_Witness ==
    /\ ev.op = "effect"
    /\ selectedEffect = "vortex"
    /\ ev.fx = "vortex"
    /\ EffectRoutine(selectedEffect) = "applyVortex"

\* what C25 asks of the draw of an image of iw x ih pixels
CoversCanvas(iw, ih) ==
    LET d == drawImage(iw, ih)
        W == Frac(CANVAS_WIDTH, 1)
        H == Frac(CANVAS_HEIGHT, 1)
    IN /\ d.scale = MaxF(Frac(CANVAS_WIDTH, iw), Frac(CANVAS_HEIGHT, ih))
       /\ d.w = Mul(Frac(iw, 1), d.scale) /\ d.h = Mul(Frac(ih, 1), d.scale)
       /\ Add(d.x, Add(d.x, d.w)) = W /\ Add(d.y, Add(d.y, d.h)) = H
       /\ Leq(d.x, Zero) /\ Leq(d.y, Zero)
       /\ Leq(W, Add(d.x, d.w)) /\ Leq(H, Add(d.y, d.h))
       /\ d.w = W \/ d.h = H

\* C25: drawImage draws every image of positive size with the uniform scale
\* max(1080 / w, 1920 / h), centred on the surface; the drawn rectangle
\* covers the whole surface and matches it exactly in at least one
\* dimension; an absent image draws nothing.
C25_DrawImageCovers ==
    /\ \A ref \in {beforeImageRef, afterImageRef} :
          IF ref = NoImage THEN DrawCalls(ref) = << >>
          ELSE /\ Len(DrawCalls(ref)) = 1
               /\ CoversCanvas(PictureWidth(ref), PictureHeight(ref))
               /\ Cover(Fit(ref), Whole) = One
    /\ \A size \in ImageSizes : CoversCanvas(size[1], size[2])

\* a frame has been drawn from a landscape photo, cropped at the sides, and a
\* small portrait, enlarged to the canvas
C25_Witness ==
    /\ ev.op = "effect"
    /\ beforeImageRef = 2 /\ afterImageRef = 3
    /\ Lt(drawImage(PictureWidth(2), PictureHeight(2)).x, Zero)
    /\ drawImage(PictureWidth(2), PictureHeight(2)).h = Frac(CANVAS_HEIGHT, 1)
    /\ drawImage(PictureWidth(3), PictureHeight(3)).scale = <<2, 1>>

\* C26: while the component is mounted, isPlaying is true exactly when a
\* frame callback is queued: no run is flagged without a pending tick, and
\* no tick is pending without the flag.
C26_PlayingIffTickPending ==
    mounted => (isPlaying <=> rafQueue # {})

\* a tick of a run has drawn a frame and queued the next one
C26_Witness ==
    /\ mounted
    /\ ev.op = "tick"
    /\ Lt(Zero, progress)
    /\ isPlaying
    /\ rafQueue # {}

\* C27: with files selected one after another for a slot (a later selection
\* has the larger number) and their decodes in flight together, once the
\* last of the decodes for the slot completes the slot holds the file
\* selected last: the completion does not put an older file over a newer one.
C27_LastSelectionWins ==
    [][\A type \in {"before", "after"} :
          (/\ ev'.op = "loaded"
           /\ InFlight(type) # {}
           /\ {d \in decoding' : d.type = type} = {})
          => LET held == IF type = "before" THEN beforeImageRef
                         ELSE afterImageRef
                 holds == IF type = "before" THEN beforeImageRef'
                          ELSE afterImageRef'
             IN /\ holds >= held
                /\ \A d \in InFlight(type) : holds >= d.file]_vars

\* two decodes for the before slot are in flight together
C27_TwoDecodesInFlight ==
    /\ mounted
    /\ Cardinality(InFlight("before")) >= 2
    /\ \E d1, d2 \in InFlight("before") : d1.file < d2.file

\* C28: stopAnimation changes the running flag and the pending tick only:
\* progress keeps the value of the last frame, the surface keeps that frame,
\* the images and the settings stay; invoked while Idle it cancels nothing
\* and leaves the flag, the queue and everything else as they were (the
\* handle of the callback that ran last may be forgotten).
C28_StopKeepsLastFrame ==
    [][ev'.op = "stop" =>
          /\ progress' = progress
          /\ surface' = surface
          /\ UNCHANGED <<beforeImageRef, afterImageRef, beforeImage, afterImage,
                         decoding, selectedEffect, duration, intensity, mounted,
                         now, sample>>
          /\ ~isPlaying'
          /\ rafQueue' = {}
          /\ ev'.fx = "none"
          /\ ~isPlaying =>
                /\ UNCHANGED <<isPlaying, rafQueue>>
                /\ ev'.cancelled = 0
                /\ animationFrameRef' \in {animationFrameRef, NoFrame}]_vars

\* a run has been stopped between its ends: the bar and the canvas show the
\* frame drawn last
C28_Witness ==
    /\ ev.op = "stop"
    /\ ev.cancelled = 1
    /\ progress = Half
    /\ surface.t = Half
    /\ surface # Blank
    /\ animationFrameRef = NoFrame

\* C29: the unmount of a component with a pending tick cancels that tick,
\* and from then on, for good, no tick runs, no effect routine is invoked
\* and the surface is not drawn on.
C29_NoTickAfterUnmount ==
    [][/\ ev'.op = "unmount" =>
             /\ ~mounted'
             /\ rafQueue' = {}
             /\ rafQueue # {} => ev'.cancelled = 1
       /\ ~mounted =>
             /\ ~mounted'
             /\ rafQueue' = {}
             /\ ev'.op \notin {"tick", "play", "effect"}
             /\ ev'.fx = "none"
             /\ surface' = surface
             /\ progress' = progress]_vars

\* a run has been torn down between two of its ticks
C29_Witness ==
    /\ ~mounted
    /\ ev.op = "unmount"
    /\ ev.cancelled = 1
    /\ isPlaying
    /\ rafQueue = {}
    /\ Lt(Zero, progress) /\ Lt(progress, One)

ClipReveals ==
    {"wipeReveal", "verticalWipe", "boxExpand", "venetianBlinds",
     "diagonalWipe", "diamondReveal"}

\* the pixels looked at: the corners, the edges, the middle and in between
SampleColumns == {0, 1, 269, 539, 540, 810, CANVAS_WIDTH - 2, CANVAS_WIDTH - 1}
SampleRows == {0, 1, 479, 959, 960, 1440, CANVAS_HEIGHT - 2, CANVAS_HEIGHT - 1}

\* C30: in a frame of a clip-reveal effect the region that shows the after
\* image is empty at progress 0, is the whole canvas at progress 1, and
\* contains at a later progress every pixel it contains at an earlier one;
\* the frame painted at an end of the run has the after image drawn, at full
\* opacity, on none, or on all, of the canvas.
C30_AfterRegionGrows ==
    surface.fx \in ClipReveals =>
        /\ \A i \in SampleColumns, j \in SampleRows :
              /\ ~InClip(surface.fx, Zero, i, j)
              /\ InClip(surface.fx, One, i, j)
              /\ \A t1, t2 \in FxProgress :
                    (Leq(t1, t2) /\ InClip(surface.fx, t1, i, j))
                        => InClip(surface.fx, t2, i, j)
        /\ surface.t \in {Zero, One} =>
              LET drawn == LayersOf(surface)[2]
              IN /\ drawn.img = "after"
                 /\ drawn.alpha = One
                 /\ drawn.cover = surface.t

\* the last frame of a diamondReveal run: the corner pixels are inside the
\* diamond, and at half the run they were not
C30_Witness ==
    /\ ev.op = "effect"
    /\ surface.fx = "diamondReveal"
    /\ surface.t = One
    /\ InClip("diamondReveal", One, 0, 0)
    /\ InClip("diamondReveal", One, CANVAS_WIDTH - 1, CANVAS_HEIGHT - 1)
    /\ ~InClip("diamondReveal", Half, 0, 0)
    /\ InClip("diamondReveal", Half, 540, 960)

====
